---- MODULE Spec2Model ----
(***************************************************************************)
(* tfdrift-operator: the drift fingerprint (internal/drift/hash.go) and    *)
(* the Deployment and Service reconcilers                                  *)
(* (internal/controller/deployment_controller.go, service reconciler in    *)
(* the second half of hash.go).                                            *)
(*                                                                         *)
(* Encoding of Go values:                                                  *)
(*   - a Go string is a TLA+ string; the free-form map values that         *)
(*     strings.TrimSpace acts on are sequences of one-character strings;   *)
(*   - a Go pointer is a sequence of length 0 (nil) or 1 (an env entry's   *)
(*     ValueFrom is <<the source it references>>);                         *)
(*   - a Go map[string]string is a function with a finite domain; a nil    *)
(*     map and an empty map are both the empty function (they read,        *)
(*     marshal and diff alike);                                            *)
(*   - a JSON document is a tagged tuple: <<"{", pairs>> for an object     *)
(*     (pairs in the order encoding/json emits them), <<"[", items>> for   *)
(*     an array;                                                           *)
(*   - SHA-256 is taken to be collision free: the digest of a document is  *)
(*     a string that determines the document.                              *)
(***************************************************************************)
EXTENDS Integers, Sequences, FiniteSets, TLC

(***************************************************************************)
(* internal/drift/constants.go                                             *)
(***************************************************************************)
LabelEnabled == "tfdrift.jin.dev/enabled"

AnnExpectedHash == "tfdrift.jin.dev/spec-hash"

AnnLiveHash == "tfdrift.jin.dev/live-hash"

AnnDrifted == "tfdrift.jin.dev/drifted"

AnnLastCheckedAt == "tfdrift.jin.dev/last-checked-at"

AnnDriftedAt == "tfdrift.jin.dev/drifted-at"

(***************************************************************************)
(* Go values                                                               *)
(***************************************************************************)
EmptyMap == << >>

\* m[k] on a Go map: the zero value "" when the key is absent (or m is nil).
MapGet(m, k) == IF k \in DOMAIN m THEN m[k] ELSE ""

\* Go's < on strings is byte-wise; StrOrder lists the strings the model
\* compares, in that order.
StrOrder == <<"", "A", "B", "a", "app", "b", "c", "cpu", "dns", "http", "tier", "web">>

StrRank(s) == CHOOSE i \in 1..Len(StrOrder) : StrOrder[i] = s

StrLess(a, b) == StrRank(a) < StrRank(b)

\* unicode.IsSpace on the characters the model uses.
IsSpace(c) == c \in {" ", "\t", "\n", "\r"}

RECURSIVE TrimLeft(_)
TrimLeft(v) ==
    IF Len(v) > 0 /\ IsSpace(v[1]) THEN TrimLeft(Tail(v)) ELSE v

RECURSIVE TrimRight(_)
TrimRight(v) ==
    IF Len(v) > 0 /\ IsSpace(v[Len(v)])
    THEN TrimRight(SubSeq(v, 1, Len(v) - 1))
    ELSE v

\* strings.TrimSpace
TrimSpace(v) == TrimRight(TrimLeft(v))

\* strconv.Itoa
Itoa(n) == ToString(n)

\* intstr.IntOrString.String(): the string value, or the integer in decimal.
IntOrStringString(t) == IF t.type = "String" THEN t.strVal ELSE Itoa(t.intVal)

(***************************************************************************)
(* sort.Slice.  For the short slices of the model (Go: at most twelve      *)
(* elements) pdqsort runs a plain insertion sort, which the model follows: *)
(* elements the comparator does not order keep their input order.  LessBy  *)
(* is the comparator closure, selected by a tag.                           *)
(***************************************************************************)
LessBy(tag, x, y) ==
    CASE tag = "container" -> StrLess(x.name, y.name)
      [] tag = "env" -> StrLess(x.name, y.name)
      [] tag = "containerPort" ->
            IF x.containerPort = y.containerPort
            THEN StrLess(x.name, y.name)
            ELSE x.containerPort < y.containerPort
      [] tag = "servicePort" ->
            IF x.port = y.port
            THEN StrLess(x.name, y.name)
            ELSE x.port < y.port

\* One pass of the inner loop: x moves left while less(x, predecessor).
InsertLast(s, x, tag) ==
    LET stop == {j \in 1..Len(s) : ~LessBy(tag, x, s[j])}
        pos  == IF stop = {} THEN 0
                ELSE CHOOSE j \in stop : \A i \in stop : i <= j
    IN  SubSeq(s, 1, pos) \o <<x>> \o SubSeq(s, pos + 1, Len(s))

RECURSIVE SortSlice(_, _)
SortSlice(s, tag) ==
    IF Len(s) <= 1 THEN s
    ELSE InsertLast(SortSlice(SubSeq(s, 1, Len(s) - 1), tag), s[Len(s)], tag)

(***************************************************************************)
(* encoding/json                                                           *)
(***************************************************************************)
JObject(pairs) == <<"{", pairs>>

JArray(items) == <<"[", items>>

\* A struct field: dropped when it carries omitempty and holds its empty value.
JField(key, value, omitted) == IF omitted THEN << >> ELSE << <<key, value>> >>

\* A map[string]string marshals with its keys sorted.
JMap(m) ==
    LET keys == SelectSeq(StrOrder, LAMBDA k : k \in DOMAIN m)
    IN  JObject([i \in 1..Len(keys) |-> <<keys[i], m[keys[i]]>>])

\* A plausible slip: an entry whose trimmed value is empty is dropped.
canonicalizeMapDropEmpty(m) ==
    [k \in {x \in DOMAIN m : TrimSpace(m[x]) # << >>} |-> TrimSpace(m[k])]

\* canonicalizeMap: every value trimmed, keys kept.
canonicalizeMap(m) == [k \in DOMAIN m |-> TrimSpace(m[k])]

\* copyMap: a fresh map with the same entries (nil stays nil).
copyMap(m) == [k \in DOMAIN m |-> m[k]]

(***************************************************************************)
(* Deployment hashing                                                      *)
(***************************************************************************)
\* fingerprintPodTemplate: every container, with every env entry reduced to
\* (name, value) and every port to (name, containerPort, protocol).
fingerprintPodTemplate(t) ==
    [ labels      |-> copyMap(t.labels),
      annotations |-> copyMap(t.annotations),
      containers  |->
        [ i \in 1..Len(t.containers) |->
            LET c == t.containers[i] IN
            [ name      |-> c.name,
              image     |-> c.image,
              env       |-> [ j \in 1..Len(c.env) |->
                                [ name  |-> c.env[j].name,
                                  value |-> c.env[j].value ] ],
              ports     |-> [ j \in 1..Len(c.ports) |->
                                [ name          |-> c.ports[j].name,
                                  containerPort |-> c.ports[j].containerPort,
                                  protocol      |-> c.ports[j].protocol ] ],
              resources |-> c.resources ] ] ]

\* A plausible slip: the annotations fingerprinted are those of the object's
\* metadata, not those of its pod template.
DeploymentFingerprintOwnAnnotations(dep) ==
    LET t  == fingerprintPodTemplate(dep.spec.template)
        cs == SortSlice(t.containers, "container")
    IN  [ replicas |-> dep.spec.replicas,
          strategy |-> dep.spec.strategy,
          template |->
            [ labels      |-> canonicalizeMap(t.labels),
              annotations |-> copyMap(dep.annotations),
              containers  |->
                [ i \in 1..Len(cs) |->
                    [ cs[i] EXCEPT
                        !.env   = SortSlice(@, "env"),
                        !.ports = SortSlice(@, "containerPort") ] ] ] ]

\* The fingerprint HashDeployment builds and canonicalises before hashJSON.
DeploymentFingerprint(dep) ==
    LET t  == fingerprintPodTemplate(dep.spec.template)
        cs == SortSlice(t.containers, "container")
    IN  [ replicas |-> dep.spec.replicas,
          strategy |-> dep.spec.strategy,
          template |->
            [ labels      |-> canonicalizeMap(t.labels),
              annotations |-> canonicalizeMap(t.annotations),
              containers  |->
                [ i \in 1..Len(cs) |->
                    [ cs[i] EXCEPT
                        !.env   = SortSlice(@, "env"),
                        !.ports = SortSlice(@, "containerPort") ] ] ] ]

\* json.Marshal of the fingerprint structs, field by field with their tags.
EnvVarJSON(e) ==
    JObject(JField("name", e.name, FALSE) \o JField("value", e.value, e.value = ""))

ContainerPortJSON(p) ==
    JObject(JField("name", p.name, p.name = "")
            \o JField("containerPort", p.containerPort, FALSE)
            \o JField("protocol", p.protocol, p.protocol = ""))

ResourcesJSON(r) ==
    JObject(JField("limits", JMap(r.limits), DOMAIN r.limits = {})
            \o JField("requests", JMap(r.requests), DOMAIN r.requests = {}))

ContainerJSON(c) ==
    JObject(JField("name", c.name, FALSE)
            \o JField("image", c.image, FALSE)
            \o JField("env", JArray([j \in 1..Len(c.env) |-> EnvVarJSON(c.env[j])]),
                      Len(c.env) = 0)
            \o JField("ports",
                      JArray([j \in 1..Len(c.ports) |-> ContainerPortJSON(c.ports[j])]),
                      Len(c.ports) = 0)
            \o JField("resources", ResourcesJSON(c.resources), FALSE))

StrategyJSON(s) ==
    JObject(JField("type", s.type, s.type = "")
            \o JField("rollingUpdate",
                      IF Len(s.rollingUpdate) = 0 THEN "null" ELSE s.rollingUpdate[1],
                      Len(s.rollingUpdate) = 0))

PodTemplateJSON(t) ==
    JObject(JField("labels", JMap(t.labels), DOMAIN t.labels = {})
            \o JField("annotations", JMap(t.annotations), DOMAIN t.annotations = {})
            \o JField("containers",
                      JArray([i \in 1..Len(t.containers) |-> ContainerJSON(t.containers[i])]),
                      FALSE))

\* A plausible slip: Replicas declared int32 (not a pointer) with omitempty,
\* so that unset reads as 0 and 0 is dropped.
DeploymentFingerprintJSONValueReplicas(fp) ==
    JObject(JField("replicas",
                   IF Len(fp.replicas) = 0 THEN 0 ELSE fp.replicas[1],
                   (IF Len(fp.replicas) = 0 THEN 0 ELSE fp.replicas[1]) = 0)
            \o JField("strategy", StrategyJSON(fp.strategy), FALSE)
            \o JField("template", PodTemplateJSON(fp.template), FALSE))

DeploymentFingerprintJSON(fp) ==
    JObject(JField("replicas",
                   IF Len(fp.replicas) = 0 THEN "null" ELSE fp.replicas[1],
                   Len(fp.replicas) = 0)
            \o JField("strategy", StrategyJSON(fp.strategy), FALSE)
            \o JField("template", PodTemplateJSON(fp.template), FALSE))

(***************************************************************************)
(* Service hashing                                                         *)
(***************************************************************************)
\* A plausible slip: the node port is left out of a port's fingerprint.
ServiceFingerprintNoNodePort(svc) ==
    LET ports == [ i \in 1..Len(svc.spec.ports) |->
                     LET p == svc.spec.ports[i] IN
                     [ name       |-> p.name,
                       protocol   |-> p.protocol,
                       port       |-> p.port,
                       targetPort |-> IntOrStringString(p.targetPort),
                       nodePort   |-> 0 ] ]
    IN  [ type     |-> svc.spec.type,
          selector |-> canonicalizeMap(copyMap(svc.spec.selector)),
          ports    |-> SortSlice(ports, "servicePort") ]

ServiceFingerprint(svc) ==
    LET ports == [ i \in 1..Len(svc.spec.ports) |->
                     LET p == svc.spec.ports[i] IN
                     [ name       |-> p.name,
                       protocol   |-> p.protocol,
                       port       |-> p.port,
                       targetPort |-> IntOrStringString(p.targetPort),
                       nodePort   |-> p.nodePort ] ]
    IN  [ type     |-> svc.spec.type,
          selector |-> canonicalizeMap(copyMap(svc.spec.selector)),
          ports    |-> SortSlice(ports, "servicePort") ]

ServicePortJSON(p) ==
    JObject(JField("name", p.name, p.name = "")
            \o JField("protocol", p.protocol, p.protocol = "")
            \o JField("port", p.port, FALSE)
            \o JField("targetPort", p.targetPort, FALSE)
            \o JField("nodePort", p.nodePort, p.nodePort = 0))

ServiceFingerprintJSON(fp) ==
    JObject(JField("type", fp.type, FALSE)
            \o JField("selector", JMap(fp.selector), DOMAIN fp.selector = {})
            \o JField("ports",
                      JArray([i \in 1..Len(fp.ports) |-> ServicePortJSON(fp.ports[i])]),
                      FALSE))

(***************************************************************************)
(* The cluster the model runs against: one Deployment and one Service      *)
(* identity, and a few concrete specs for each.                            *)
(***************************************************************************)
DepKey == "default/web"

SvcKey == "default/web-svc"

Keys == {DepKey, SvcKey}

KindOf(k) == IF k = DepKey THEN "Deployment" ELSE "Service"

NoResources == [limits |-> EmptyMap, requests |-> EmptyMap]

ContainerA ==
    [ name |-> "a", image |-> "nginx:1.25",
      env |-> << [name |-> "B", value |-> "1", valueFrom |-> << >>],
                 [name |-> "A", value |-> "", valueFrom |-> <<"secret/a">>] >>,
      ports |-> << [name |-> "http", containerPort |-> 80, protocol |-> "TCP"] >>,
      resources |-> NoResources ]

ContainerB ==
    [ name |-> "b", image |-> "envoy:1.30",
      env |-> << >>,
      ports |-> << [name |-> "", containerPort |-> 53, protocol |-> "UDP"],
                   [name |-> "dns", containerPort |-> 53, protocol |-> "TCP"] >>,
      resources |-> [limits |-> ("cpu" :> "500m"), requests |-> EmptyMap] ]

DepSpec1 ==
    [ replicas |-> <<2>>,
      strategy |-> [type |-> "RollingUpdate", rollingUpdate |-> << >>],
      template |-> [ labels |-> ("app" :> <<"w", "e", "b">>),
                     annotations |-> EmptyMap,
                     containers |-> <<ContainerA, ContainerB>> ] ]

\* The same configuration as DepSpec1, listed in another order and with
\* padding around a label value.
DepSpec2 ==
    [ DepSpec1 EXCEPT !.template.containers = <<ContainerB, ContainerA>>,
                      !.template.labels = ("app" :> <<" ", "w", "e", "b", "\n">>) ]

\* DepSpec1 with another image for container a.
DepSpec3 ==
    [ DepSpec1 EXCEPT !.template.containers =
        << [ContainerA EXCEPT !.image = "nginx:1.27"], ContainerB >> ]

DeploymentSpecs == {"DepSpec1", "DepSpec2", "DepSpec3"}

Port80 ==
    [ name |-> "http", protocol |-> "TCP", port |-> 80,
      targetPort |-> [type |-> "Int", intVal |-> 8080, strVal |-> ""],
      nodePort |-> 0 ]

Port443 ==
    [ name |-> "web", protocol |-> "TCP", port |-> 443,
      targetPort |-> [type |-> "String", intVal |-> 0, strVal |-> "http"],
      nodePort |-> 0 ]

SvcSpec1 ==
    [ type |-> "ClusterIP", selector |-> ("app" :> <<"w", "e", "b">>),
      ports |-> <<Port80, Port443>> ]

\* The same configuration as SvcSpec1 with the ports listed in another order.
SvcSpec2 == [SvcSpec1 EXCEPT !.ports = <<Port443, Port80>>]

\* SvcSpec1 exposed as a NodePort service.
SvcSpec3 == [SvcSpec1 EXCEPT !.type = "NodePort"]

ServiceSpecs == {"SvcSpec1", "SvcSpec2", "SvcSpec3"}

SpecsOf(k) == IF KindOf(k) = "Deployment" THEN DeploymentSpecs ELSE ServiceSpecs

\* The state names a resource's spec; SpecNamed is the spec itself, and
\* Resolved the object as the Go code holds it.
SpecNamed(name) ==
    CASE name = "DepSpec1" -> DepSpec1
      [] name = "DepSpec2" -> DepSpec2
      [] name = "DepSpec3" -> DepSpec3
      [] name = "SvcSpec1" -> SvcSpec1
      [] name = "SvcSpec2" -> SvcSpec2
      [] name = "SvcSpec3" -> SvcSpec3

Resolved(o) == [o EXCEPT !.spec = SpecNamed(@)]

\* An object of spec s with no labels, no annotations and an empty status.
Bare(s) == [labels |-> EmptyMap, annotations |-> EmptyMap, status |-> 0, spec |-> s]

(***************************************************************************)
(* hashJSON: hex(sha256(json.Marshal(fp))).  The digest of a document is a *)
(* string that determines the document: a short one for the documents of   *)
(* the specs above, the document's text for any other.                     *)
(***************************************************************************)
DigestTable ==
    << <<ToString(DeploymentFingerprintJSON(DeploymentFingerprint(Bare(DepSpec1)))), "sha256:3f0a">>,
       <<ToString(DeploymentFingerprintJSON(DeploymentFingerprint(Bare(DepSpec3)))), "sha256:c71e">>,
       <<ToString(ServiceFingerprintJSON(ServiceFingerprint(Bare(SvcSpec1)))), "sha256:58b2">>,
       <<ToString(ServiceFingerprintJSON(ServiceFingerprint(Bare(SvcSpec3)))), "sha256:e904">> >>

Sha256Hex(doc) ==
    LET text == ToString(doc)
        hit  == {i \in 1..Len(DigestTable) : DigestTable[i][1] = text}
    IN  IF hit = {} THEN "sha256:" \o text
        ELSE DigestTable[CHOOSE i \in hit : TRUE][2]

HashDeployment(dep) == Sha256Hex(DeploymentFingerprintJSON(DeploymentFingerprint(dep)))

HashService(svc) == Sha256Hex(ServiceFingerprintJSON(ServiceFingerprint(svc)))

(***************************************************************************)
(* Bounds of the model                                                     *)
(***************************************************************************)
\* The clock counts whole seconds, the resolution of time.RFC3339, from 0 to
\* MaxClock.
MaxClock == 1

\* Changes made by writers other than the reconcilers.
MaxExt == 2

\* Events the recorder holds.
MaxEvents == 2

(***************************************************************************)
(* State                                                                   *)
(***************************************************************************)
VARIABLES
    store,      \* API server: key -> << >> (no such resource) or <<object>>
    cache,      \* informer cache r.Get reads: key -> << >> or <<object>>
    queue,      \* work queue of the controllers: the keys waiting for Reconcile
    clock,      \* wall clock, in seconds
    pc,         \* key -> "idle" | "patch" (Reconcile suspended before r.Patch)
    obj,        \* key -> << >> or <<the object the running invocation fetched>>
    kv,         \* key -> the annotations the running invocation has staged
    ops,        \* key -> the calls the running or last invocation has made,
                \* each with its outcome where it has one
    result,     \* key -> "none" | "pending" | what the last invocation
                \* returned: "ok" | "err"
    recorder,   \* the events given to the EventRecorder, in order
    hist,       \* key -> history of the last finished invocation: "settled"
                \* (it saw the stored object and returned success, and nothing
                \* but the clock has changed since), "raced" (its patch was
                \* applied to an object other than the one it had fetched),
                \* "none" otherwise
    ext,        \* number of external changes made so far
    arg,        \* the objects handed to HashDeployment / HashService when the
                \* hash functions are exercised on their own
    ret         \* the hashes returned for arg, << >> before the call

vars == <<store, cache, queue, clock, pc, obj, kv, ops, result, recorder, hist, ext,
          arg, ret>>

(***************************************************************************)
(* Reconcile, as far as it is the same for both kinds                      *)
(***************************************************************************)
\* time.Now().UTC().Format(time.RFC3339), for the seconds of the model's
\* first minute.
RFC3339(t) ==
    "2026-01-01T00:00:" \o (IF t < 10 THEN "0" ELSE "") \o ToString(t) \o "Z"

\* A plausible slip: every failure of r.Get is returned, not-found included.
ReturnEveryGetError(outcome) == "err"

\* What Reconcile returns when r.Get did not deliver an object: success for
\* not-found, the error otherwise.
ReturnAfterGet(outcome) == IF outcome = "notfound" THEN "ok" ELSE "err"

\* A plausible slip: any value of the label opts the resource in.
IsEnabledAnyValue(o) == LabelEnabled \in DOMAIN o.labels

\* The opt-in test: Labels != nil && Labels[LabelEnabled] == "true".
IsEnabled(o) == MapGet(o.labels, LabelEnabled) = "true"

\* A plausible slip: the baseline is looked up under one fixed identity, not
\* under the identity of the request.
ExpectedOfShared(o) ==
    IF Len(cache[DepKey]) = 1
    THEN MapGet(cache[DepKey][1].annotations, AnnExpectedHash)
    ELSE MapGet(o.annotations, AnnExpectedHash)

\* A plausible slip: the baseline is tested for presence (the two-value map
\* read), so that a present annotation with the empty value counts as a
\* baseline; its value is then written as a pair of quotes.
ExpectedOfPresent(o) ==
    IF AnnExpectedHash \in DOMAIN o.annotations /\ o.annotations[AnnExpectedHash] = ""
    THEN "\"\""
    ELSE MapGet(o.annotations, AnnExpectedHash)

\* expected := Annotations[AnnExpectedHash], "" when there is none.
ExpectedOf(o) == MapGet(o.annotations, AnnExpectedHash)

\* drift.HashDeployment(&dep) and drift.HashService(&svc) for the specs of
\* the cluster, computed once.
LiveHashes ==
    [ kind \in {"Deployment", "Service"} |->
        IF kind = "Deployment"
        THEN [n \in DeploymentSpecs |-> HashDeployment(Bare(SpecNamed(n)))]
        ELSE [n \in ServiceSpecs |-> HashService(Bare(SpecNamed(n)))] ]

\* drift.HashDeployment(&dep) or drift.HashService(&svc): the hash reads the
\* spec of the object and nothing else of it.
LiveHash(kind, o) == LiveHashes[kind][o.spec]

\* A plausible slip: the no-baseline branch records a verdict.
NoBaselinePatchWithVerdict(now) == (AnnDrifted :> "false") @@ (AnnLastCheckedAt :> now)

\* The map staged when there is no baseline.
NoBaselinePatch(now) == AnnLastCheckedAt :> now

\* A plausible slip: a drifted verdict also takes the live hash as the new
\* baseline.
VerdictPatchRebaseline(o, expected, liveHash, now) ==
    LET base == (AnnLiveHash :> liveHash) @@ (AnnLastCheckedAt :> now)
    IN  IF liveHash # expected
        THEN (AnnExpectedHash :> liveHash) @@ (AnnDrifted :> "true") @@ base
        ELSE (AnnDrifted :> "false") @@ base

\* A plausible slip: the verdict is taken from the time of first detection,
\* so that a resource once drifted stays drifted.
VerdictPatchSticky(o, expected, liveHash, now) ==
    LET base == (AnnLiveHash :> liveHash) @@ (AnnLastCheckedAt :> now)
    IN  IF liveHash # expected
        THEN IF MapGet(o.annotations, AnnDriftedAt) = ""
             THEN (AnnDriftedAt :> now) @@ (AnnDrifted :> "true") @@ base
             ELSE (AnnDrifted :> "true") @@ base
        ELSE IF MapGet(o.annotations, AnnDriftedAt) = ""
             THEN (AnnDrifted :> "false") @@ base
             ELSE (AnnDrifted :> "true") @@ base

\* A plausible slip: the drifted branch stages its own map and leaves
\* last-checked-at out of it.
VerdictPatchUncheckedDrift(o, expected, liveHash, now) ==
    IF liveHash # expected
    THEN IF MapGet(o.annotations, AnnDriftedAt) = ""
         THEN (AnnDriftedAt :> now) @@ (AnnDrifted :> "true") @@ (AnnLiveHash :> liveHash)
         ELSE (AnnDrifted :> "true") @@ (AnnLiveHash :> liveHash)
    ELSE (AnnDrifted :> "false") @@ (AnnLiveHash :> liveHash)
         @@ (AnnLastCheckedAt :> now)

\* The map staged after the comparison.
VerdictPatch(o, expected, liveHash, now) ==
    LET base == (AnnLiveHash :> liveHash) @@ (AnnLastCheckedAt :> now)
    IN  IF liveHash # expected
        THEN IF MapGet(o.annotations, AnnDriftedAt) = ""
             THEN (AnnDriftedAt :> now) @@ (AnnDrifted :> "true") @@ base
             ELSE (AnnDrifted :> "true") @@ base
        ELSE (AnnDrifted :> "false") @@ base

\* A plausible slip: the event is recorded with normal severity.
DriftEventNormal(kind, k, expected, liveHash) ==
    [ object  |-> k,
      type    |-> "Normal",
      reason  |-> "TerraformDriftDetected",
      message |-> <<kind \o " drift detected: expectedHash=", expected,
                    " liveHash=", liveHash>> ]

\* r.Recorder.Eventf(&obj, Warning, "TerraformDriftDetected", "<Kind> drift
\* detected: expectedHash=%s liveHash=%s", expected, liveHash)
DriftEvent(kind, k, expected, liveHash) ==
    [ object  |-> k,
      type    |-> "Warning",
      reason  |-> "TerraformDriftDetected",
      message |-> <<kind \o " drift detected: expectedHash=", expected,
                    " liveHash=", liveHash>> ]

\* A plausible slip: the event is emitted outside the drifted branch.
EventsForAnyVerdict(kind, k, expected, liveHash) ==
    <<DriftEvent(kind, k, expected, liveHash)>>

\* A plausible slip: the reconciler remembers what it has reported and does
\* not report the same drift twice.
EventsForOnce(kind, k, expected, liveHash) ==
    IF /\ liveHash # expected
       /\ \A i \in 1..Len(recorder) :
             recorder[i] # DriftEvent(kind, k, expected, liveHash)
    THEN <<DriftEvent(kind, k, expected, liveHash)>>
    ELSE << >>

\* A plausible slip: the event is left to be emitted once the patch has
\* succeeded, so that nothing is emitted before r.Patch.
EventsForAfterPatch(kind, k, expected, liveHash) == << >>

\* The events Reconcile emits for a fetched, opted-in object with a baseline.
EventsFor(kind, k, expected, liveHash) ==
    IF liveHash # expected THEN <<DriftEvent(kind, k, expected, liveHash)>> ELSE << >>

\* patchAnnotations: the fetched object with the staged keys set.
WithAnnotations(o, m) == [o EXCEPT !.annotations = m @@ @]

\* client.MergeFrom(orig).Data(modified): the JSON merge patch, which holds
\* the annotation keys whose value differs from orig and nothing else (no
\* resourceVersion: orig and modified carry the same one).
MergeFromData(orig, modified) ==
    [ annotations |->
        [ a \in { b \in DOMAIN modified.annotations :
                    \/ b \notin DOMAIN orig.annotations
                    \/ orig.annotations[b] # modified.annotations[b] }
          |-> modified.annotations[a] ] ]

\* A plausible slip: r.Update, which sends the whole modified object and
\* replaces the stored one.
ApplyWholeObject(current, orig, modified) == modified

\* A plausible slip: a drifted-at the stored object already has is kept,
\* whatever the patch says.
ApplyMergePatchKeepDriftedAt(current, orig, modified) ==
    LET data == MergeFromData(orig, modified).annotations
        sent == IF AnnDriftedAt \in DOMAIN current.annotations
                THEN DOMAIN data \ {AnnDriftedAt} ELSE DOMAIN data
    IN  [current EXCEPT !.annotations = [a \in sent |-> data[a]] @@ @]

\* The API server applying a merge patch to the object it holds.
ApplyMergePatch(current, orig, modified) ==
    [current EXCEPT !.annotations = MergeFromData(orig, modified).annotations @@ @]

\* A plausible slip: one request per staged key, last-checked-at first, so
\* that a failure after the first request leaves that key written.
PersistedKeyByKey(current, orig, modified, outcome) ==
    IF outcome = "ok" THEN <<ApplyMergePatch(current[1], orig, modified)>>
    ELSE IF Len(current) = 1
    THEN <<[current[1] EXCEPT !.annotations =
              (AnnLastCheckedAt :> modified.annotations[AnnLastCheckedAt]) @@ @]>>
    ELSE current

\* What the server holds after the r.Patch request: the patched object when
\* the request succeeded, what it held before otherwise.
Persisted(current, orig, modified, outcome) ==
    IF outcome = "ok" THEN <<ApplyMergePatch(current[1], orig, modified)>>
    ELSE current

\* The ways r.Patch fails: the API server cannot be reached, or it reports a
\* conflict with a concurrent change of the object.
PatchFaults == {"none", "unavailable", "conflict"}

\* What r.Patch reports for a fault and the object the server holds (<< >>
\* when the resource is gone).
PatchOutcome(fault, current) ==
    IF fault = "conflict" THEN "conflict"
    ELSE IF fault = "unavailable" \/ Len(current) = 0 THEN "error"
    ELSE "ok"

\* A plausible slip: one r.Patch per staged key.
PatchCallsPerKey(staged, outcome) ==
    [i \in 1..Cardinality(DOMAIN staged) |-> "Patch:" \o outcome]

\* The store calls patchAnnotations makes for a staged map: one r.Patch.
PatchCalls(staged, outcome) == <<"Patch:" \o outcome>>

\* A plausible slip: the error of patchAnnotations is logged and dropped.
ReturnSuccessAfterPatch(outcome) == "ok"

\* What Reconcile returns after patchAnnotations: (Result{}, err).
ReturnAfterPatch(outcome) == IF outcome = "ok" THEN "ok" ELSE "err"

\* A plausible slip: Reconcile polls, returning Result{Requeue: true}.
RequeuedAlways(returned) == TRUE

\* The controller queues the key again (with backoff) when Reconcile
\* returned an error; Result{} asks for nothing.
Requeued(returned) == returned = "err"

(***************************************************************************)
(* Values other writers give to what they own                              *)
(***************************************************************************)
\* The baseline the IaC step records: the hash of the first spec of the kind.
BaselineOf(k) ==
    LiveHash(KindOf(k),
             [ labels |-> EmptyMap, annotations |-> EmptyMap,
               spec |-> IF KindOf(k) = "Deployment" THEN "DepSpec1" ELSE "SvcSpec1" ])

LabelValues == {"true", "True"}

ExpectedValues(k) == {"", BaselineOf(k)}

OtherAnn == "example.com/owner"

OwnedKeys == {AnnLiveHash, AnnDrifted, AnnDriftedAt, AnnLastCheckedAt}

\* m without key a.
MapRemove(m, a) == [b \in DOMAIN m \ {a} |-> m[b]]

(***************************************************************************)
(* Init: the informer cache has listed the cluster, and every listed       *)
(* resource is queued once (the ADD events of the initial LIST).           *)
(***************************************************************************)
Init ==
    \E k0 \in Keys :
      \E s \in SpecsOf(k0),
         lab \in {EmptyMap, LabelEnabled :> "true"},
         ann \in {EmptyMap, AnnExpectedHash :> BaselineOf(k0)} :
        /\ store = [k \in Keys |->
                      IF k = k0
                      THEN <<[labels |-> lab, annotations |-> ann, spec |-> s]>>
                      ELSE << >>]
        /\ cache = store
        /\ queue = {k0}
        /\ clock = 0
        /\ pc = [k \in Keys |-> "idle"]
        /\ obj = [k \in Keys |-> << >>]
        /\ kv = [k \in Keys |-> EmptyMap]
        /\ ops = [k \in Keys |-> << >>]
        /\ result = [k \in Keys |-> "none"]
        /\ recorder = << >>
        /\ hist = [k \in Keys |-> "none"]
        /\ ext = 0
        /\ arg = << >>
        /\ ret = << >>

(***************************************************************************)
(* Reconcile up to its return or to the r.Patch call of patchAnnotations.  *)
(* getErr: r.Get fails for a reason other than not-found.                  *)
(***************************************************************************)
ReconcileGet(k) ==
    /\ k \in queue
    /\ pc[k] = "idle"
    /\ \E getErr \in BOOLEAN :
        LET outcome  == IF getErr THEN "error"
                        ELSE IF Len(cache[k]) = 0 THEN "notfound" ELSE "ok"
            o        == cache[k][1]
            enabled  == outcome = "ok" /\ IsEnabled(o)
            expected == ExpectedOf(o)
            hashed   == enabled /\ expected # ""
            liveHash == LiveHash(KindOf(k), o)
            now      == RFC3339(clock)
            events   == IF hashed
                        THEN EventsFor(KindOf(k), k, expected, liveHash)
                        ELSE << >>
            staged   == IF ~enabled THEN EmptyMap
                        ELSE IF expected = "" THEN NoBaselinePatch(now)
                        ELSE VerdictPatch(o, expected, liveHash, now)
            returned == IF enabled THEN "pending"
                        ELSE IF outcome = "ok" THEN "ok"
                        ELSE ReturnAfterGet(outcome)
        IN  /\ Len(recorder) + Len(events) <= MaxEvents
            /\ obj' = [obj EXCEPT ![k] = IF enabled THEN cache[k] ELSE << >>]
            /\ kv' = [kv EXCEPT ![k] = staged]
            /\ ops' = [ops EXCEPT ![k] =
                         <<"Get:" \o outcome>>
                         \o (IF hashed THEN <<"Hash">> ELSE << >>)
                         \o [i \in 1..Len(events) |-> "Eventf"]]
            /\ recorder' = recorder \o events
            /\ pc' = [pc EXCEPT ![k] = IF enabled THEN "patch" ELSE "idle"]
            /\ result' = [result EXCEPT ![k] = returned]
            \* a returned error puts the key back on the queue
            /\ queue' = IF Requeued(returned) THEN queue ELSE queue \ {k}
            /\ hist' = [hist EXCEPT ![k] =
                          IF enabled THEN @
                          ELSE IF returned = "ok" /\ cache[k] = store[k]
                          THEN "settled" ELSE "none"]
            /\ UNCHANGED <<store, cache, clock, ext, arg, ret>>

(***************************************************************************)
(* patchAnnotations from r.Patch on.  The request fails when the resource  *)
(* is gone, when the API server cannot be reached, or with a conflict,     *)
(* which the server reports only for an object that changed meanwhile.     *)
(***************************************************************************)
ReconcilePatch(k) ==
    /\ pc[k] = "patch"
    /\ \E fault \in PatchFaults :
        LET orig     == obj[k][1]
            modified == WithAnnotations(orig, kv[k])
            outcome  == PatchOutcome(fault, store[k])
            ok       == outcome = "ok"
            returned == ReturnAfterPatch(outcome)
        IN  /\ fault = "conflict" => (Len(store[k]) = 1 /\ obj[k] # store[k])
            /\ store' = [store EXCEPT ![k] = Persisted(@, orig, modified, outcome)]
            /\ ops' = [ops EXCEPT ![k] = @ \o PatchCalls(kv[k], outcome)]
            /\ pc' = [pc EXCEPT ![k] = "idle"]
            /\ result' = [result EXCEPT ![k] = returned]
            /\ queue' = IF Requeued(returned) THEN queue \cup {k} ELSE queue
            /\ hist' = [hist EXCEPT ![k] =
                          IF ~ok THEN "none"
                          ELSE IF obj[k] = store[k] THEN "settled" ELSE "raced"]
            \* the locals end with the call
            /\ obj' = [obj EXCEPT ![k] = << >>]
            /\ kv' = [kv EXCEPT ![k] = EmptyMap]
            /\ UNCHANGED <<cache, clock, recorder, ext, arg, ret>>

(***************************************************************************)
(* The watch layer (SetupWithManager: For(&Deployment{}) / For(&Service{}),*)
(* no predicates): every change the informer sees queues the key.          *)
(***************************************************************************)
\* A plausible slip: an update predicate that lets no update event through
\* (the cache follows the store, the key is not queued).
CacheSyncFiltered(k) ==
    /\ cache[k] # store[k]
    /\ cache' = [cache EXCEPT ![k] = store[k]]
    /\ UNCHANGED <<store, queue, clock, pc, obj, kv, ops, result, recorder, hist, ext,
                   arg, ret>>

CacheSync(k) ==
    /\ cache[k] # store[k]
    /\ cache' = [cache EXCEPT ![k] = store[k]]
    /\ queue' = queue \cup {k}
    /\ UNCHANGED <<store, clock, pc, obj, kv, ops, result, recorder, hist, ext, arg, ret>>

\* Periodic resync: an update event for a cached object that did not change.
Resync(k) ==
    /\ Len(cache[k]) = 1
    /\ k \notin queue
    /\ queue' = queue \cup {k}
    /\ UNCHANGED <<store, cache, clock, pc, obj, kv, ops, result, recorder, hist, ext,
                   arg, ret>>

Tick ==
    /\ clock < MaxClock
    /\ clock' = clock + 1
    /\ UNCHANGED <<store, cache, queue, pc, obj, kv, ops, result, recorder, hist, ext,
                   arg, ret>>

(***************************************************************************)
(* Other writers of the same resources                                     *)
(***************************************************************************)
External(k, o) ==
    /\ ext < MaxExt
    /\ Len(store[k]) = 1
    /\ o # store[k]
    /\ store' = [store EXCEPT ![k] = o]
    /\ hist' = [hist EXCEPT ![k] = IF @ = "settled" THEN "none" ELSE @]
    /\ ext' = ext + 1
    /\ UNCHANGED <<cache, queue, clock, pc, obj, kv, ops, result, recorder, arg, ret>>

ExtSetLabel(k) ==
    \E v \in LabelValues :
        External(k, <<[store[k][1] EXCEPT !.labels = (LabelEnabled :> v) @@ @]>>)

ExtSetExpected(k) ==
    \E v \in ExpectedValues(k) :
        External(k, <<[store[k][1] EXCEPT !.annotations = (AnnExpectedHash :> v) @@ @]>>)

ExtRemoveExpected(k) ==
    External(k, <<[store[k][1] EXCEPT !.annotations = MapRemove(@, AnnExpectedHash)]>>)

ExtSetSpec(k) ==
    \E s \in SpecsOf(k) :
        External(k, <<[store[k][1] EXCEPT !.spec = s]>>)

ExtSetOther(k) ==
    External(k, <<[store[k][1] EXCEPT !.annotations = (OtherAnn :> "team-a") @@ @]>>)

ExtDelete(k) == External(k, << >>)

Next ==
    \/ \E k \in Keys : ReconcileGet(k)
    \/ \E k \in Keys : ReconcilePatch(k)
    \/ \E k \in Keys : CacheSync(k)
    \/ \E k \in Keys : Resync(k)
    \/ Tick
    \/ \E k \in Keys : ExtSetLabel(k)
    \/ \E k \in Keys : ExtSetExpected(k)
    \/ \E k \in Keys : ExtRemoveExpected(k)
    \/ \E k \in Keys : ExtSetSpec(k)
    \/ \E k \in Keys : ExtSetOther(k)
    \/ \E k \in Keys : ExtDelete(k)

Spec == Init /\ [][Next]_vars

(***************************************************************************)
(* The scheduling the controller gives: the informer delivers every change *)
(* of the store, a queued key is handed to Reconcile, a running Reconcile  *)
(* goes on to its patch; and, as an assumption on the API server, reads    *)
(* and writes do not fail for ever.                                        *)
(***************************************************************************)
GetSucceeds(k) == ReconcileGet(k) /\ ops'[k][1] # "Get:error"

PatchSucceeds(k) == ReconcilePatch(k) /\ result'[k] = "ok"

Fairness ==
    \A k \in Keys :
        /\ WF_vars(CacheSync(k))
        /\ WF_vars(GetSucceeds(k))
        /\ WF_vars(ReconcilePatch(k))
        /\ SF_vars(PatchSucceeds(k))

SpecFair == Init /\ [][Next]_vars /\ Fairness

(***************************************************************************)
(* Both controllers at work: a Deployment and a Service, both opted in and *)
(* with a baseline, reconciled concurrently (the manager runs one worker   *)
(* per controller) while their specs are changed, within one second.       *)
(***************************************************************************)
InitBoth ==
    \E sd \in DeploymentSpecs, ss \in ServiceSpecs :
        /\ store = [k \in Keys |->
                      <<[ labels |-> LabelEnabled :> "true",
                          annotations |-> AnnExpectedHash :> BaselineOf(k),
                          spec |-> IF k = DepKey THEN sd ELSE ss ]>>]
        /\ cache = store
        /\ queue = Keys
        /\ clock = 0
        /\ pc = [k \in Keys |-> "idle"]
        /\ obj = [k \in Keys |-> << >>]
        /\ kv = [k \in Keys |-> EmptyMap]
        /\ ops = [k \in Keys |-> << >>]
        /\ result = [k \in Keys |-> "none"]
        /\ recorder = << >>
        /\ hist = [k \in Keys |-> "none"]
        /\ ext = 0
        /\ arg = << >>
        /\ ret = << >>

NextBoth ==
    \/ \E k \in Keys : ReconcileGet(k)
    \/ \E k \in Keys : ReconcilePatch(k)
    \/ \E k \in Keys : CacheSync(k)
    \/ \E k \in Keys : ExtSetSpec(k)

SpecBoth == InitBoth /\ [][NextBoth]_vars

(***************************************************************************)
(* The reconcilers left to themselves: one opted-in resource, no other     *)
(* writer, no resync; the watch queues the key whenever the cache takes    *)
(* up a change, the reconciler's own among them, and time goes on without  *)
(* end.  Reconcile copies the time and never orders two times, so the      *)
(* seconds are counted round a ring of ClockRing values.                   *)
(***************************************************************************)
ClockRing == MaxClock + 2

InitQuiet ==
    \E k0 \in Keys :
      \E s \in SpecsOf(k0), ann \in {EmptyMap, AnnExpectedHash :> BaselineOf(k0)} :
        /\ store = [k \in Keys |->
                      IF k = k0
                      THEN <<[ labels |-> LabelEnabled :> "true",
                               annotations |-> ann, spec |-> s ]>>
                      ELSE << >>]
        /\ cache = store
        /\ queue = {k0}
        /\ clock = 0
        /\ pc = [k \in Keys |-> "idle"]
        /\ obj = [k \in Keys |-> << >>]
        /\ kv = [k \in Keys |-> EmptyMap]
        /\ ops = [k \in Keys |-> << >>]
        /\ result = [k \in Keys |-> "none"]
        /\ recorder = << >>
        /\ hist = [k \in Keys |-> "none"]
        /\ ext = 0
        /\ arg = << >>
        /\ ret = << >>

\* A second passes.
TickOn ==
    /\ clock' = (clock + 1) % ClockRing
    /\ UNCHANGED <<store, cache, queue, pc, obj, kv, ops, result, recorder, hist, ext,
                   arg, ret>>

NextQuiet ==
    \/ \E k \in Keys : ReconcileGet(k)
    \/ \E k \in Keys : ReconcilePatch(k)
    \/ \E k \in Keys : CacheSync(k)
    \/ TickOn

\* The informer delivers, the queue is served, the API server answers in
\* the end, and time passes.
SpecQuiet == InitQuiet /\ [][NextQuiet]_vars /\ Fairness /\ WF_vars(TickOn)

(***************************************************************************)
(* The hash functions on their own: HashDeployment and HashService called  *)
(* on two objects of one kind.  The Deployments are DepSpec1 with the      *)
(* containers in either order and with container a carrying one of a few   *)
(* env lists and port lists, among them two env entries of one name and    *)
(* two unnamed ports of one number (53/UDP and 53/TCP); the Services are   *)
(* the three Service specs of the cluster.  To these come DepSpec1 and     *)
(* SvcSpec1 with one field changed at a time, under several metadata and   *)
(* statuses.                                                               *)
(***************************************************************************)
EnvA1 == [name |-> "A", value |-> "1", valueFrom |-> << >>]

EnvA2 == [name |-> "A", value |-> "2", valueFrom |-> << >>]

EnvB == [name |-> "B", value |-> "1", valueFrom |-> << >>]

EnvLists == { <<EnvA1, EnvB>>, <<EnvB, EnvA1>>, <<EnvA1, EnvA2>>, <<EnvA2, EnvA1>> }

Port53UDP == [name |-> "", containerPort |-> 53, protocol |-> "UDP"]

Port53TCP == [name |-> "", containerPort |-> 53, protocol |-> "TCP"]

Port80TCP == [name |-> "http", containerPort |-> 80, protocol |-> "TCP"]

PortLists ==
    { <<Port53UDP, Port53TCP>>, <<Port53TCP, Port53UDP>>,
      <<Port80TCP, Port53UDP>>, <<Port53UDP, Port80TCP>> }

HashDeploymentInputs ==
    { [ kind |-> "Deployment", labels |-> EmptyMap, annotations |-> EmptyMap,
        status |-> 0,
        spec |-> [DepSpec1 EXCEPT !.template.containers = cs] ] :
      cs \in UNION { { <<[ContainerA EXCEPT !.env = e, !.ports = p], ContainerB>>,
                       <<ContainerB, [ContainerA EXCEPT !.env = e, !.ports = p]>> } :
                     e \in EnvLists, p \in PortLists } }

HashServiceInputs ==
    { [ kind |-> "Service", labels |-> EmptyMap, annotations |-> EmptyMap,
        status |-> 0, spec |-> SpecNamed(n) ] : n \in ServiceSpecs }

\* What an object carries besides its spec: metadata labels and annotations
\* (among them every key the reconcilers write) and a status.
MetadataVariants ==
    { [labels |-> EmptyMap, annotations |-> EmptyMap, status |-> 0],
      [labels |-> EmptyMap, annotations |-> EmptyMap, status |-> 1],
      [ labels |-> (LabelEnabled :> "true"),
        annotations |-> (AnnExpectedHash :> "sha256:3f0a")
                        @@ (AnnLiveHash :> "sha256:c71e")
                        @@ (AnnDrifted :> "true")
                        @@ (AnnLastCheckedAt :> RFC3339(1))
                        @@ (AnnDriftedAt :> RFC3339(0)),
        status |-> 0 ] }

\* Env entries that take their value from a reference.
EnvARef == [name |-> "A", value |-> "", valueFrom |-> <<"secret/a">>]

EnvARefOther == [name |-> "A", value |-> "", valueFrom |-> <<"configmap/a">>]

EnvCRef == [name |-> "c", value |-> "", valueFrom |-> <<"secret/c">>]

\* Container a of DepSpec1 with one of its fields changed, or with a
\* referenced env entry removed, added or pointed at another source.
ContainerVariants ==
    { ContainerA,
      [ContainerA EXCEPT !.name = "c"],
      [ContainerA EXCEPT !.image = "nginx:1.27"],
      [ContainerA EXCEPT !.env = <<[EnvB EXCEPT !.value = "2"], EnvARef>>],
      [ContainerA EXCEPT !.env = <<[EnvB EXCEPT !.name = "c"], EnvARef>>],
      [ContainerA EXCEPT !.env = <<EnvB>>],
      [ContainerA EXCEPT !.env = <<EnvB, EnvARef, EnvCRef>>],
      [ContainerA EXCEPT !.env = <<EnvB, EnvARefOther>>],
      [ContainerA EXCEPT !.ports = <<[Port80TCP EXCEPT !.name = "web"]>>],
      [ContainerA EXCEPT !.ports = <<[Port80TCP EXCEPT !.containerPort = 81]>>],
      [ContainerA EXCEPT !.ports = <<[Port80TCP EXCEPT !.protocol = "UDP"]>>],
      [ContainerA EXCEPT !.resources.limits = ("cpu" :> "1")] }

\* DepSpec1 with one thing changed: a container as above, the replicas
\* (among them unset and zero), the strategy, a pod-template label or
\* annotation (among them padded and empty values).
DeploymentSpecVariants ==
    { [DepSpec1 EXCEPT !.template.containers = <<c, ContainerB>>] :
        c \in ContainerVariants }
    \cup { [DepSpec1 EXCEPT !.replicas = r] : r \in {<< >>, <<0>>, <<3>>} }
    \cup { [DepSpec1 EXCEPT !.strategy.type = "Recreate"],
           [DepSpec1 EXCEPT !.strategy.rollingUpdate = <<JObject(<< >>)>>] }
    \cup { [DepSpec1 EXCEPT !.template.labels = l] :
             l \in { ("app" :> <<"a", "p", "i">>),
                     ("app" :> <<" ", "w", "e", "b", "\n">>),
                     ("app" :> <<"w", "e", "b">>) @@ ("tier" :> << >>),
                     ("app" :> <<"w", "e", "b">>) @@ ("tier" :> <<" ">>),
                     EmptyMap } }
    \cup { [DepSpec1 EXCEPT !.template.annotations = a] :
             a \in { ("tier" :> <<"x">>), ("tier" :> <<"\t", "x">>),
                     ("tier" :> << >>) } }

HashDeploymentVariants ==
    { [ kind |-> "Deployment", labels |-> m.labels, annotations |-> m.annotations,
        status |-> m.status, spec |-> s ] :
      m \in MetadataVariants, s \in DeploymentSpecVariants }

\* SvcSpec1 with one thing changed: the type, the selector, a field of the
\* first port.
ServiceSpecVariants ==
    { SvcSpec1, SvcSpec3 }
    \cup { [SvcSpec1 EXCEPT !.selector = l] :
             l \in { ("app" :> <<"a", "p", "i">>),
                     ("app" :> <<"w", "e", "b", " ">>),
                     ("app" :> <<"w", "e", "b">>) @@ ("tier" :> << >>),
                     EmptyMap } }
    \cup { [SvcSpec1 EXCEPT !.ports = <<q, Port443>>] :
             q \in { [Port80 EXCEPT !.name = "dns"],
                     [Port80 EXCEPT !.protocol = "UDP"],
                     [Port80 EXCEPT !.port = 81],
                     [Port80 EXCEPT !.targetPort.intVal = 8081],
                     [Port80 EXCEPT !.targetPort =
                         [type |-> "String", intVal |-> 0, strVal |-> "web"]],
                     [Port80 EXCEPT !.nodePort = 30080] } }

HashServiceVariants ==
    { [ kind |-> "Service", labels |-> m.labels, annotations |-> m.annotations,
        status |-> m.status, spec |-> s ] :
      m \in MetadataVariants, s \in ServiceSpecVariants }

\* The call: drift.HashDeployment(&dep) or drift.HashService(&svc).
HashOf(a) == IF a.kind = "Deployment" THEN HashDeployment(a) ELSE HashService(a)

InitHash ==
    /\ arg \in ((HashDeploymentInputs \cup HashDeploymentVariants)
                    \X (HashDeploymentInputs \cup HashDeploymentVariants))
                \cup ((HashServiceInputs \cup HashServiceVariants)
                       \X (HashServiceInputs \cup HashServiceVariants))
    /\ ret = << >>
    /\ store = [k \in Keys |-> << >>]
    /\ cache = store
    /\ queue = {}
    /\ clock = 0
    /\ pc = [k \in Keys |-> "idle"]
    /\ obj = [k \in Keys |-> << >>]
    /\ kv = [k \in Keys |-> EmptyMap]
    /\ ops = [k \in Keys |-> << >>]
    /\ result = [k \in Keys |-> "none"]
    /\ recorder = << >>
    /\ hist = [k \in Keys |-> "none"]
    /\ ext = 0

HashCall ==
    /\ ret = << >>
    /\ ret' = <<HashOf(arg[1]), HashOf(arg[2])>>
    /\ UNCHANGED <<store, cache, queue, clock, pc, obj, kv, ops, result, recorder,
                   hist, ext, arg>>

NextHash == HashCall

SpecHash == InitHash /\ [][NextHash]_vars

(***************************************************************************)
(* The two reconcilers side by side.  One invocation of each, from its     *)
(* start to its return, as a function of what it meets: the outcome of     *)
(* r.Get, the object fetched, the live hash computed for it, the time and  *)
(* the outcome of r.Patch.  DeploymentReconcile is put together from the   *)
(* definitions above, which follow deployment_controller.go;               *)
(* ServiceReconcile follows the service reconciler statement by statement. *)
(* Each gives what it staged, whether it called r.Patch and with which     *)
(* object, the events it emitted and what it returned.                     *)
(***************************************************************************)
DeploymentReconcile(in) ==
    LET dep      == in.o
        enabled  == in.get = "ok" /\ IsEnabled(dep)
        expected == ExpectedOf(dep)
        now      == RFC3339(in.clock)
        staged   == IF ~enabled THEN EmptyMap
                    ELSE IF expected = "" THEN NoBaselinePatch(now)
                    ELSE VerdictPatch(dep, expected, in.liveHash, now)
    IN  [ staged   |-> staged,
          patched  |-> IF enabled THEN <<WithAnnotations(dep, staged)>> ELSE << >>,
          events   |-> IF enabled /\ expected # ""
                       THEN EventsFor("Deployment", in.key, expected, in.liveHash)
                       ELSE << >>,
          returned |-> IF enabled THEN ReturnAfterPatch(in.patch)
                       ELSE IF in.get = "ok" THEN "ok"
                       ELSE ReturnAfterGet(in.get) ]

\* A plausible slip: the service reconciler stamps drifted-at on every
\* drifted invocation.
ServiceVerdictPatchRestamp(svc, expected, liveHash, now) ==
    LET patch == (AnnLiveHash :> liveHash) @@ (AnnLastCheckedAt :> now)
    IN  IF liveHash # expected
        THEN (AnnDriftedAt :> now) @@ (AnnDrifted :> "true") @@ patch
        ELSE (AnnDrifted :> "false") @@ patch

\* The service reconciler's patch map after the comparison.
ServiceVerdictPatch(svc, expected, liveHash, now) ==
    LET patch == (AnnLiveHash :> liveHash) @@ (AnnLastCheckedAt :> now)
    IN  IF liveHash # expected
        THEN IF \/ AnnDriftedAt \notin DOMAIN svc.annotations
                \/ svc.annotations[AnnDriftedAt] = ""
             THEN (AnnDriftedAt :> now) @@ (AnnDrifted :> "true") @@ patch
             ELSE (AnnDrifted :> "true") @@ patch
        ELSE (AnnDrifted :> "false") @@ patch

\* The service reconciler's patchAnnotations: the map set on the fetched object,
\* r.Patch, and the error returned if there is one.
ServicePatchAnnotations(svc, m, events, outcome) ==
    [ staged   |-> m,
      patched  |-> <<[svc EXCEPT !.annotations =
                        [a \in DOMAIN m \cup DOMAIN @ |->
                           IF a \in DOMAIN m THEN m[a] ELSE @[a]]]>>,
      events   |-> events,
      returned |-> IF outcome # "ok" THEN "err" ELSE "ok" ]

ServiceReconcile(in) ==
    LET svc  == in.o
        done(returned) == [ staged |-> EmptyMap, patched |-> << >>,
                            events |-> << >>, returned |-> returned ]
    IN  IF in.get = "notfound" THEN done("ok")
        ELSE IF in.get # "ok" THEN done("err")
        ELSE IF \/ LabelEnabled \notin DOMAIN svc.labels
                \/ svc.labels[LabelEnabled] # "true"
        THEN done("ok")
        ELSE LET expected == IF AnnExpectedHash \in DOMAIN svc.annotations
                             THEN svc.annotations[AnnExpectedHash] ELSE ""
                 now      == RFC3339(in.clock)
             IN  IF expected = ""
                 THEN ServicePatchAnnotations(svc, AnnLastCheckedAt :> now, << >>,
                                              in.patch)
                 ELSE ServicePatchAnnotations(
                        svc,
                        ServiceVerdictPatch(svc, expected, in.liveHash, now),
                        IF in.liveHash # expected
                        THEN << [ object  |-> in.key,
                                  type    |-> "Warning",
                                  reason  |-> "TerraformDriftDetected",
                                  message |-> <<"Service drift detected: expectedHash=",
                                                expected, " liveHash=", in.liveHash>> ] >>
                        ELSE << >>,
                        in.patch)

\* What the two invocations meet.
ReconcileInputs ==
    [ key      : {"default/web"},
      get      : {"ok", "notfound", "error"},
      o        : { [ labels |-> l, annotations |-> e @@ d @@ v ] :
                     l \in {EmptyMap, LabelEnabled :> "true", LabelEnabled :> "True"},
                     e \in {EmptyMap, AnnExpectedHash :> "",
                            AnnExpectedHash :> "sha256:3f0a"},
                     d \in {EmptyMap, AnnDriftedAt :> "", AnnDriftedAt :> RFC3339(0)},
                     v \in {EmptyMap, (AnnDrifted :> "true") @@ (OtherAnn :> "team-a")} },
      liveHash : {"sha256:3f0a", "sha256:c71e"},
      clock    : 0..MaxClock,
      patch    : {"ok", "error", "conflict"} ]

InitSideBySide ==
    /\ arg \in {<<in>> : in \in ReconcileInputs}
    /\ ret = << >>
    /\ store = [k \in Keys |-> << >>]
    /\ cache = store
    /\ queue = {}
    /\ clock = 0
    /\ pc = [k \in Keys |-> "idle"]
    /\ obj = [k \in Keys |-> << >>]
    /\ kv = [k \in Keys |-> EmptyMap]
    /\ ops = [k \in Keys |-> << >>]
    /\ result = [k \in Keys |-> "none"]
    /\ recorder = << >>
    /\ hist = [k \in Keys |-> "none"]
    /\ ext = 0

\* Both reconcilers are invoked on the one input.
ReconcileSideBySide ==
    /\ ret = << >>
    /\ ret' = <<DeploymentReconcile(arg[1]), ServiceReconcile(arg[1])>>
    /\ UNCHANGED <<store, cache, queue, clock, pc, obj, kv, ops, result, recorder,
                   hist, ext, arg>>

NextSideBySide == ReconcileSideBySide

SpecSideBySide == InitSideBySide /\ [][NextSideBySide]_vars

(***************************************************************************)
(* Vocabulary of the properties                                            *)
(***************************************************************************)
\* A step in which Reconcile(k) runs from its start to its return or to r.Patch.
GetStep(k) ==
    /\ pc[k] = "idle"
    /\ k \in queue
    /\ \/ ops'[k] # ops[k]
       \/ result'[k] # result[k]
       \/ pc'[k] # pc[k]
       \/ k \notin queue'

\* A step in which the suspended Reconcile(k) issues its patch and returns.
PatchStep(k) == pc[k] = "patch" /\ pc'[k] = "idle"

\* r.Get delivered an object in this step.
Fetched(k) == GetStep(k) /\ ops'[k][1] = "Get:ok"

Label(o) == IF LabelEnabled \in DOMAIN o.labels THEN o.labels[LabelEnabled] ELSE ""

Ann(o, a) == IF a \in DOMAIN o.annotations THEN o.annotations[a] ELSE ""

HasAnn(o, a) == a \in DOMAIN o.annotations

Range(f) == {f[x] : x \in DOMAIN f}

\* The two objects agree on annotation a: both lack it, or both hold one value.
SameAnn(o1, o2, a) ==
    /\ HasAnn(o1, a) <=> HasAnn(o2, a)
    /\ HasAnn(o1, a) => o1.annotations[a] = o2.annotations[a]

AllAnn(o1, o2) == DOMAIN o1.annotations \cup DOMAIN o2.annotations

\* The entries of ops that are reads of the store, and those that are writes.
GetOps == {"Get:ok", "Get:notfound", "Get:error"}

PatchOps == {"Patch:ok", "Patch:error", "Patch:conflict"}

\* The hash of a named spec of a kind.
HashOfSpec(kind, s) ==
    LiveHash(kind, [labels |-> EmptyMap, annotations |-> EmptyMap, spec |-> s])

\* The patch and the events of an invocation, written as functions of what it
\* observes and of nothing else: the kind and name of the resource, the value
\* of its opt-in label, its expected-hash and drifted-at annotations, its
\* spec, and the clock.
DecidedPatch(kind, label, expected, driftedAt, s, t) ==
    IF label # "true" THEN EmptyMap
    ELSE IF expected = "" THEN AnnLastCheckedAt :> RFC3339(t)
    ELSE (AnnLiveHash :> HashOfSpec(kind, s))
         @@ (AnnLastCheckedAt :> RFC3339(t))
         @@ (AnnDrifted :> IF HashOfSpec(kind, s) # expected THEN "true" ELSE "false")
         @@ (IF HashOfSpec(kind, s) # expected /\ driftedAt = ""
             THEN AnnDriftedAt :> RFC3339(t) ELSE EmptyMap)

DecidedEvents(kind, k, label, expected, s) ==
    IF label = "true" /\ expected # "" /\ HashOfSpec(kind, s) # expected
    THEN << [ object  |-> k,
              type    |-> "Warning",
              reason  |-> "TerraformDriftDetected",
              message |-> <<kind \o " drift detected: expectedHash=", expected,
                            " liveHash=", HashOfSpec(kind, s)>> ] >>
    ELSE << >>

(***************************************************************************)
(* C1  Opt-out short-circuit: an invocation whose fetched resource does    *)
(* not carry the opt-in label with the exact value "true" makes no call    *)
(* besides the fetch (no hash, no event, no patch), changes nothing in the *)
(* store and returns success, whatever annotations the resource carries.   *)
(***************************************************************************)
C1_OptOutShortCircuit ==
    [][\A k \in Keys :
         (Fetched(k) /\ Label(cache[k][1]) # "true") =>
            /\ ops'[k] = <<"Get:ok">>
            /\ pc'[k] = "idle"
            /\ result'[k] = "ok"
            /\ kv'[k] = EmptyMap
            /\ recorder' = recorder
            /\ store' = store]_vars

\* An invocation has just returned from the opt-in test on a resource whose
\* label is present but not "true", and which carries a baseline and a
\* drift record.
C1_Witness ==
    \E k \in Keys :
        /\ pc[k] = "idle" /\ k \notin queue
        /\ result[k] = "ok" /\ ops[k] = <<"Get:ok">>
        /\ Len(cache[k]) = 1
        /\ Label(cache[k][1]) = "True"
        /\ Ann(cache[k][1], AnnExpectedHash) # ""
        /\ Ann(cache[k][1], AnnDrifted) = "true"

(***************************************************************************)
(* C2  Drifted verdict: for a fetched, opted-in resource with a baseline   *)
(* whose live hash differs from expected-hash, the invocation stages       *)
(* drifted="true", live-hash=<computed> and last-checked-at=<now>, and     *)
(* gives the recorder exactly one event: a Warning about that resource     *)
(* whose message holds the expected and the live hash.                     *)
(***************************************************************************)
C2_DriftedVerdict ==
    [][\A k \in Keys :
         (/\ Fetched(k)
          /\ Label(cache[k][1]) = "true"
          /\ Ann(cache[k][1], AnnExpectedHash) # ""
          /\ LiveHash(KindOf(k), cache[k][1]) # Ann(cache[k][1], AnnExpectedHash)) =>
            LET live == LiveHash(KindOf(k), cache[k][1])
                n    == Len(recorder)
            IN  /\ pc'[k] = "patch"
                /\ MapGet(kv'[k], AnnDrifted) = "true"
                /\ MapGet(kv'[k], AnnLiveHash) = live
                /\ MapGet(kv'[k], AnnLastCheckedAt) = RFC3339(clock)
                /\ Len(recorder') = n + 1
                /\ SubSeq(recorder', 1, n) = recorder
                /\ recorder'[n + 1].object = k
                /\ recorder'[n + 1].type = "Warning"
                /\ Ann(cache[k][1], AnnExpectedHash) \in Range(recorder'[n + 1].message)
                /\ live \in Range(recorder'[n + 1].message)]_vars

\* A drifted invocation is suspended before its patch, the event given.
C2_Witness ==
    \E k \in Keys :
        /\ pc[k] = "patch"
        /\ MapGet(kv[k], AnnDrifted) = "true"
        /\ ops[k] = <<"Get:ok", "Hash", "Eventf">>
        /\ Len(recorder) > 0
        /\ recorder[Len(recorder)].object = k

(***************************************************************************)
(* C3  Clean verdict: for a fetched, opted-in resource with a baseline     *)
(* whose live hash equals expected-hash, the invocation stages exactly     *)
(* drifted="false", live-hash=<computed> and last-checked-at=<now> (so no  *)
(* drifted-at) and gives the recorder nothing.                             *)
(***************************************************************************)
C3_CleanVerdict ==
    [][\A k \in Keys :
         (/\ Fetched(k)
          /\ Label(cache[k][1]) = "true"
          /\ Ann(cache[k][1], AnnExpectedHash) # ""
          /\ LiveHash(KindOf(k), cache[k][1]) = Ann(cache[k][1], AnnExpectedHash)) =>
            /\ pc'[k] = "patch"
            /\ DOMAIN kv'[k] = {AnnDrifted, AnnLiveHash, AnnLastCheckedAt}
            /\ kv'[k][AnnDrifted] = "false"
            /\ kv'[k][AnnLiveHash] = LiveHash(KindOf(k), cache[k][1])
            /\ kv'[k][AnnLastCheckedAt] = RFC3339(clock)
            /\ recorder' = recorder]_vars

\* A clean invocation is suspended before its patch; the spec it hashed is
\* the baseline's configuration listed in another order.
C3_Witness ==
    \E k \in Keys :
        /\ pc[k] = "patch"
        /\ MapGet(kv[k], AnnDrifted) = "false"
        /\ ops[k] = <<"Get:ok", "Hash">>
        /\ obj[k][1].spec \in {"DepSpec2", "SvcSpec2"}

(***************************************************************************)
(* C4  No baseline: for a fetched, opted-in resource without expected-hash *)
(* the invocation computes no hash, emits nothing and stages only          *)
(* last-checked-at; its patch leaves drifted, live-hash and drifted-at     *)
(* (and everything else) in the store as they were.                        *)
(***************************************************************************)
C4_NoBaseline ==
    [][\A k \in Keys :
         /\ (/\ Fetched(k)
              /\ Label(cache[k][1]) = "true"
              /\ Ann(cache[k][1], AnnExpectedHash) = "") =>
                /\ pc'[k] = "patch"
                /\ ops'[k] = <<"Get:ok">>
                /\ kv'[k] = (AnnLastCheckedAt :> RFC3339(clock))
                /\ recorder' = recorder
                /\ store' = store
         /\ (/\ PatchStep(k)
              /\ Ann(obj[k][1], AnnExpectedHash) = ""
              /\ Len(store[k]) = 1) =>
                /\ Len(store'[k]) = 1
                /\ store'[k][1].labels = store[k][1].labels
                /\ store'[k][1].spec = store[k][1].spec
                /\ \A a \in AllAnn(store[k][1], store'[k][1]) \ {AnnLastCheckedAt} :
                       SameAnn(store[k][1], store'[k][1], a)
                /\ result'[k] = "ok" => Ann(store'[k][1], AnnLastCheckedAt) = kv[k][AnnLastCheckedAt]]_vars

\* A no-baseline invocation has patched a resource that carries a drift
\* record from the time it had a baseline: the record is still there, next
\* to a later last-checked-at.
C4_Witness ==
    \E k \in Keys :
        /\ pc[k] = "idle" /\ result[k] = "ok"
        /\ ops[k] = <<"Get:ok", "Patch:ok">>
        /\ hist[k] = "settled"
        /\ Len(store[k]) = 1
        /\ Ann(store[k][1], AnnExpectedHash) = ""
        /\ Ann(store[k][1], AnnDrifted) = "true"
        /\ Ann(store[k][1], AnnDriftedAt) = RFC3339(0)
        /\ Ann(store[k][1], AnnLastCheckedAt) = RFC3339(1)

(***************************************************************************)
(* C5  First-detection timestamp stability: drifted-at is staged only when *)
(* the fetched resource has no drifted-at value, and while the resource    *)
(* stays drifted (drifted="true" before and after a patch) a drifted-at    *)
(* value that is set in the store is never changed by a patch.             *)
(***************************************************************************)
C5_DriftedAtStable ==
    [][\A k \in Keys :
         /\ (Fetched(k) /\ AnnDriftedAt \in DOMAIN kv'[k]) =>
                Ann(cache[k][1], AnnDriftedAt) = ""
         /\ (/\ PatchStep(k)
              /\ Len(store[k]) = 1
              /\ Ann(store[k][1], AnnDrifted) = "true"
              /\ Ann(store[k][1], AnnDriftedAt) # ""
              /\ Ann(store'[k][1], AnnDrifted) = "true") =>
                Ann(store'[k][1], AnnDriftedAt) = Ann(store[k][1], AnnDriftedAt)]_vars

(***************************************************************************)
(* C6  Drift episodes: when the store records drifted="false" and a patch  *)
(* then records drifted="true" (drift has recurred), that patch sets       *)
(* drifted-at to the time of this detection, the last-checked-at it writes.*)
(***************************************************************************)
C6_DriftedAtOfEpisode ==
    [][\A k \in Keys :
         (/\ PatchStep(k)
          /\ result'[k] = "ok"
          /\ hist'[k] = "settled"
          /\ Ann(store[k][1], AnnDrifted) = "false"
          /\ Ann(store'[k][1], AnnDrifted) = "true") =>
            Ann(store'[k][1], AnnDriftedAt) = Ann(store'[k][1], AnnLastCheckedAt)]_vars

(***************************************************************************)
(* C7  Idempotence: when an invocation has returned success on the stored  *)
(* object and nothing but the clock has changed since, the next invocation *)
(* on that object gives the recorder nothing and its patch leaves the      *)
(* stored annotations as they are.                                         *)
(***************************************************************************)
C7_Idempotent ==
    [][\A k \in Keys :
         /\ (GetStep(k) /\ hist[k] = "settled" /\ cache[k] = store[k]) =>
                recorder' = recorder
         /\ (/\ PatchStep(k)
              /\ hist[k] = "settled"
              /\ obj[k] = store[k]
              /\ result'[k] = "ok") =>
                store'[k][1].annotations = store[k][1].annotations]_vars

(***************************************************************************)
(* C8  Write frame: a patch of either reconciler changes nothing in the    *)
(* store but annotations of the patched resource with a key among          *)
(* live-hash, drifted, drifted-at and last-checked-at: labels, spec,       *)
(* expected-hash and every other annotation stay as the store has them.    *)
(***************************************************************************)
C8_WriteFrame ==
    [][\A k \in Keys :
         PatchStep(k) =>
            /\ \A j \in Keys \ {k} : store'[j] = store[j]
            /\ Len(store'[k]) = Len(store[k])
            /\ Len(store[k]) = 1 =>
                  /\ store'[k][1].labels = store[k][1].labels
                  /\ store'[k][1].spec = store[k][1].spec
                  /\ \A a \in AllAnn(store[k][1], store'[k][1]) \ OwnedKeys :
                         SameAnn(store[k][1], store'[k][1], a)]_vars

\* A verdict has been patched onto a resource that carries the opt-in
\* label, a baseline and an annotation of another owner.
C8_Witness ==
    \E k \in Keys :
        /\ pc[k] = "idle" /\ result[k] = "ok"
        /\ ops[k][Len(ops[k])] = "Patch:ok"
        /\ Len(store[k]) = 1
        /\ Ann(store[k][1], OtherAnn) = "team-a"
        /\ Ann(store[k][1], AnnExpectedHash) = BaselineOf(k)
        /\ Ann(store[k][1], AnnLiveHash) # ""
        /\ Ann(store[k][1], AnnDrifted) = "true"

(***************************************************************************)
(* C9  Other writers: when the patch reaches a stored object that differs  *)
(* from the one the invocation fetched (another writer changed spec,       *)
(* labels, expected-hash or an annotation of its own in between), the      *)
(* patch is applied to the stored object: what the other writer wrote is   *)
(* still there afterwards, and the only annotations that change are keys   *)
(* the invocation staged.                                                  *)
(***************************************************************************)
C9_OtherWritersKept ==
    [][\A k \in Keys :
         (/\ PatchStep(k)
          /\ Len(store[k]) = 1
          /\ obj[k] # store[k]
          /\ result'[k] = "ok") =>
            /\ store'[k][1].labels = store[k][1].labels
            /\ store'[k][1].spec = store[k][1].spec
            /\ \A a \in AllAnn(store[k][1], store'[k][1]) :
                   \/ SameAnn(store[k][1], store'[k][1], a)
                   \/ /\ a \in DOMAIN kv[k] \cap OwnedKeys
                      /\ Ann(store'[k][1], a) = kv[k][a]]_vars

\* A patch has been applied to an object other than the one fetched, and
\* the stored spec, which the invocation did not hash, is still in place:
\* the recorded verdict is that of the spec fetched.
C9_Witness ==
    \E k \in Keys :
        /\ pc[k] = "idle" /\ result[k] = "ok"
        /\ hist[k] = "raced"
        /\ Len(store[k]) = 1
        /\ Ann(store[k][1], AnnExpectedHash) # ""
        /\ Ann(store[k][1], AnnLiveHash) # ""
        /\ Ann(store[k][1], AnnLiveHash) # LiveHash(KindOf(k), store[k][1])

(***************************************************************************)
(* C10  Fetch not found: when r.Get reports that the resource does not     *)
(* exist, Reconcile returns success having made no other call: no hash,    *)
(* no event, no patch, nothing staged and nothing changed in the store.    *)
(***************************************************************************)
C10_NotFoundIsSuccess ==
    [][\A k \in Keys :
         (GetStep(k) /\ ops'[k][1] = "Get:notfound") =>
            /\ ops'[k] = <<"Get:notfound">>
            /\ result'[k] = "ok"
            /\ pc'[k] = "idle"
            /\ kv'[k] = EmptyMap
            /\ recorder' = recorder
            /\ store' = store]_vars

\* An invocation for a deleted resource has returned.
C10_Witness ==
    \E k \in Keys :
        /\ pc[k] = "idle" /\ k \notin queue
        /\ ops[k] = <<"Get:notfound">>
        /\ result[k] = "ok"
        /\ Len(store[k]) = 0 /\ Len(cache[k]) = 0

C12_UnavailableIsError ==
    [][\A k \in Keys :
         /\ (GetStep(k) /\ ops'[k][1] = "Get:error") =>
               /\ ops'[k] = <<"Get:error">>
               /\ result'[k] = "err"
               /\ pc'[k] = "idle"
               /\ kv'[k] = EmptyMap
               /\ recorder' = recorder
               /\ store' = store
               /\ k \in queue'
         /\ (PatchStep(k) /\ ops'[k][Len(ops'[k])] # "Patch:ok") =>
               /\ result'[k] = "err"
               /\ k \in queue']_vars

\* The fetch of a drifted, opted-in resource has failed: the error is
\* returned, the key waits for its retry and no event has been emitted.
C12_Witness ==
    \E k \in Keys :
        /\ pc[k] = "idle" /\ result[k] = "err" /\ k \in queue
        /\ ops[k] = <<"Get:error">>
        /\ recorder = << >>
        /\ Len(cache[k]) = 1
        /\ Label(cache[k][1]) = "true"
        /\ Ann(cache[k][1], AnnExpectedHash) = BaselineOf(k)
        /\ LiveHash(KindOf(k), cache[k][1]) # BaselineOf(k)

(***************************************************************************)
(* C13  Write-conflict handling: when r.Patch reports a conflict, the      *)
(* invocation does not return the conflict as an error: it goes on (to a   *)
(* fresh fetch and another attempt) or returns success.                    *)
(***************************************************************************)
C13_ConflictRetried ==
    [][\A k \in Keys :
         (PatchStep(k) /\ ops'[k][Len(ops'[k])] = "Patch:conflict") =>
            result'[k] # "err"]_vars

(***************************************************************************)
(* C14  Store-access bound: the calls of an invocation, running or         *)
(* returned, begin with its one r.Get; no other call is a read, at most    *)
(* one is an r.Patch, and the r.Patch is the last call.                    *)
(***************************************************************************)
C14_StoreAccessBound ==
    \A k \in Keys :
        ops[k] # << >> =>
            /\ ops[k][1] \in GetOps
            /\ \A i \in 2..Len(ops[k]) :
                  /\ ops[k][i] \notin GetOps
                  /\ ops[k][i] \in PatchOps => i = Len(ops[k])
            /\ pc[k] = "patch" => ops[k][Len(ops[k])] \notin PatchOps

\* An invocation has run the longest path: fetch, hash, event, patch.
C14_Witness ==
    \E k \in Keys :
        /\ pc[k] = "idle" /\ result[k] = "ok"
        /\ ops[k] = <<"Get:ok", "Hash", "Eventf", "Patch:ok">>

(***************************************************************************)
(* C15  No self-scheduling: an invocation that returns success leaves the  *)
(* key off the work queue (unless the watch layer had queued it meanwhile);*)
(* a key enters the queue only through the watch layer (a cache update or  *)
(* a resync) or through a returned error.                                  *)
(***************************************************************************)
C15_NoSelfScheduling ==
    [][\A k \in Keys :
         /\ (GetStep(k) /\ result'[k] = "ok") => k \notin queue'
         /\ (PatchStep(k) /\ result'[k] = "ok") => queue' = queue
         /\ (k \in queue' /\ k \notin queue) =>
               \/ cache'[k] # cache[k]
               \/ PatchStep(k) /\ result'[k] = "err"
               \/ UNCHANGED <<store, cache, clock, pc, obj, kv, ops, result,
                              recorder>>]_vars

\* An invocation has patched its verdict and returned success; the cache
\* has caught up and nothing is queued.
C15_Witness ==
    \E k \in Keys :
        /\ pc[k] = "idle" /\ result[k] = "ok"
        /\ ops[k][Len(ops[k])] = "Patch:ok"
        /\ cache = store
        /\ queue = {}

(***************************************************************************)
(* C16  Level-triggered decision: the patch an invocation stages and the   *)
(* events it emits are a function of what it fetched (the opt-in label,    *)
(* expected-hash, drifted-at and spec of the resource) and of the clock:   *)
(* two invocations that agree on these stage the same patch and emit the   *)
(* same events, whatever happened before either of them.                   *)
(***************************************************************************)
C16_LevelTriggered ==
    [][\A k \in Keys :
         Fetched(k) =>
            LET o == cache[k][1] IN
            /\ kv'[k] = DecidedPatch(KindOf(k), Label(o), Ann(o, AnnExpectedHash),
                                     Ann(o, AnnDriftedAt), o.spec, clock)
            /\ recorder' = recorder \o DecidedEvents(KindOf(k), k, Label(o),
                                                     Ann(o, AnnExpectedHash), o.spec)]_vars

\* A second invocation has observed what an earlier one had observed (a
\* drifted resource with no drifted-at, at second 0) and has decided as the
\* earlier one had: the same event once more, the same drifted-at staged.
C16_Witness ==
    \E k \in Keys :
        /\ pc[k] = "patch"
        /\ Len(recorder) = 2 /\ recorder[1] = recorder[2]
        /\ clock = 0
        /\ AnnDriftedAt \in DOMAIN kv[k]
        /\ kv[k][AnnDriftedAt] = RFC3339(0)

(***************************************************************************)
(* C17  Eventual verdict: under the scheduling of SpecFair, and once the   *)
(* external changes have stopped (there are at most MaxExt), the record of *)
(* every opted-in resource with a baseline comes to hold, and keeps, the   *)
(* hash of its current spec as live-hash and drifted = "true" exactly when *)
(* that hash differs from its current expected-hash.  Runs in which the    *)
(* recorder of the model is full while a key waits are left out.           *)
(***************************************************************************)
VerdictCurrent(k) ==
    (/\ Len(store[k]) = 1
     /\ Label(store[k][1]) = "true"
     /\ Ann(store[k][1], AnnExpectedHash) # "") =>
        LET o == store[k][1]
            h == LiveHash(KindOf(k), o)
        IN  /\ Ann(o, AnnLiveHash) = h
            /\ Ann(o, AnnDrifted) =
                  IF h # Ann(o, AnnExpectedHash) THEN "true" ELSE "false"

RecorderBlocks == Len(recorder) = MaxEvents /\ queue # {}

C17_EventualVerdict ==
    <>[](RecorderBlocks \/ \A k \in Keys : VerdictCurrent(k))

\* After the last external change the record has come to the verdict of the
\* current spec, a drifted one, and nothing is left to do.
C17_Witness ==
    \E k \in Keys :
        /\ ext = MaxExt
        /\ queue = {} /\ pc[k] = "idle" /\ cache = store
        /\ Len(store[k]) = 1
        /\ Label(store[k][1]) = "true"
        /\ Ann(store[k][1], AnnExpectedHash) = BaselineOf(k)
        /\ Ann(store[k][1], AnnDrifted) = "true"
        /\ Ann(store[k][1], AnnLiveHash) = LiveHash(KindOf(k), store[k][1])
        /\ Ann(store[k][1], AnnLiveHash) # BaselineOf(k)

(***************************************************************************)
(* C18  Per-resource isolation: a step of an invocation for one identity   *)
(* decides from the cached object of that identity alone, leaves the       *)
(* stored and cached objects, the invocation state and the queue entry of  *)
(* every other identity as they are, and emits events about its own        *)
(* identity only; so whenever the two controllers have come to rest, in    *)
(* whatever order their steps were interleaved, each resource holds the    *)
(* verdict of its own spec and baseline, as it would had it been           *)
(* reconciled alone.                                                       *)
(***************************************************************************)
OthersUntouched(k) ==
    \A j \in Keys \ {k} :
        /\ store'[j] = store[j] /\ cache'[j] = cache[j]
        /\ pc'[j] = pc[j] /\ obj'[j] = obj[j] /\ kv'[j] = kv[j]
        /\ ops'[j] = ops[j] /\ result'[j] = result[j]
        /\ (j \in queue') <=> (j \in queue)

AtRest == queue = {} /\ cache = store /\ \A k \in Keys : pc[k] = "idle"

C18_Isolation ==
    /\ [](AtRest => \A k \in Keys : VerdictCurrent(k))
    /\ [][\A k \in Keys :
           /\ (GetStep(k) \/ PatchStep(k)) =>
                 /\ OthersUntouched(k)
                 /\ \A i \in Len(recorder) + 1 .. Len(recorder') :
                       recorder'[i].object = k
           /\ Fetched(k) =>
                 kv'[k] = DecidedPatch(KindOf(k), Label(cache[k][1]),
                                       Ann(cache[k][1], AnnExpectedHash),
                                       Ann(cache[k][1], AnnDriftedAt),
                                       cache[k][1].spec, clock)]_vars

\* Both invocations are suspended before their patch at the same time, one
\* with a drifted verdict and one with a clean verdict.
C18_Witness ==
    /\ pc[DepKey] = "patch" /\ pc[SvcKey] = "patch"
    /\ kv[DepKey][AnnDrifted] = "true"
    /\ kv[SvcKey][AnnDrifted] = "false"
    /\ kv[DepKey][AnnLiveHash] # kv[SvcKey][AnnLiveHash]

(***************************************************************************)
(* C19  Order-insensitive fingerprint: two specs of one kind that differ   *)
(* only in the order of their containers, of the env entries of a          *)
(* container, or of their ports have the same hash.                        *)
(***************************************************************************)
\* The elements of a list with their multiplicities.
BagOf(s) == [e \in Range(s) |-> Cardinality({i \in DOMAIN s : s[i] = e})]

ContainerUpToOrder(c) ==
    [ name |-> c.name, image |-> c.image, resources |-> c.resources,
      env |-> BagOf(c.env), ports |-> BagOf(c.ports) ]

SameUpToOrder(x, y) ==
    /\ x.kind = y.kind
    /\ IF x.kind = "Deployment"
       THEN /\ x.spec.replicas = y.spec.replicas
            /\ x.spec.strategy = y.spec.strategy
            /\ x.spec.template.labels = y.spec.template.labels
            /\ x.spec.template.annotations = y.spec.template.annotations
            /\ BagOf([i \in DOMAIN x.spec.template.containers |->
                        ContainerUpToOrder(x.spec.template.containers[i])])
               = BagOf([i \in DOMAIN y.spec.template.containers |->
                          ContainerUpToOrder(y.spec.template.containers[i])])
       ELSE /\ x.spec.type = y.spec.type
            /\ x.spec.selector = y.spec.selector
            /\ BagOf(x.spec.ports) = BagOf(y.spec.ports)

C19_OrderInsensitive ==
    (ret # << >> /\ SameUpToOrder(arg[1], arg[2])) => ret[1] = ret[2]

(***************************************************************************)
(* C20  Total sort order: in every list the hash functions sort            *)
(* (containers, the env entries and the ports of a container, the ports    *)
(* of a Service), the comparator orders any two elements that differ.      *)
(***************************************************************************)
TotalOn(s, tag) ==
    \A i, j \in DOMAIN s :
        s[i] # s[j] => (LessBy(tag, s[i], s[j]) \/ LessBy(tag, s[j], s[i]))

SortedLists(a) ==
    IF a.kind = "Deployment"
    THEN LET cs == fingerprintPodTemplate(a.spec.template).containers
         IN  {<<cs, "container">>}
             \cup {<<cs[i].env, "env">> : i \in DOMAIN cs}
             \cup {<<cs[i].ports, "containerPort">> : i \in DOMAIN cs}
    ELSE {<<a.spec.ports, "servicePort">>}

C20_TotalOrder ==
    \A n \in DOMAIN ret : \A l \in SortedLists(arg[n]) : TotalOn(l[1], l[2])

(***************************************************************************)
(* C21  Sensitivity and exclusion.  The included fields of an object are   *)
(* those of its spec that the fingerprint structs name: of an env entry    *)
(* its name and literal value, of everything else in the spec the whole    *)
(* field.  The source an env entry references, the status and the metadata *)
(* are excluded.                                                           *)
(***************************************************************************)
\* v without its leading and trailing white space, said without recursion.
Stripped(v) ==
    LET core == {i \in DOMAIN v : ~IsSpace(v[i])}
    IN  IF core = {} THEN << >>
        ELSE SubSeq(v, CHOOSE i \in core : \A j \in core : i <= j,
                       CHOOSE i \in core : \A j \in core : j <= i)

Literal(e) == [name |-> e.name, value |-> e.value]

\* The included fields of x, lists taken up to order; with trim, map values
\* taken up to surrounding white space.
IncludedOf(x, trim) ==
    LET m(f) == IF trim THEN [k \in DOMAIN f |-> Stripped(f[k])] ELSE f
    IN  IF x.kind = "Deployment"
        THEN [ replicas    |-> x.spec.replicas,
               strategy    |-> x.spec.strategy,
               labels      |-> m(x.spec.template.labels),
               annotations |-> m(x.spec.template.annotations),
               containers  |->
                 BagOf([ i \in DOMAIN x.spec.template.containers |->
                           LET c == x.spec.template.containers[i] IN
                           [ name |-> c.name, image |-> c.image,
                             resources |-> c.resources,
                             env |-> BagOf([j \in DOMAIN c.env |-> Literal(c.env[j])]),
                             ports |-> BagOf(c.ports) ] ]) ]
        ELSE [ type     |-> x.spec.type,
               selector |-> m(x.spec.selector),
               ports    |-> BagOf(x.spec.ports) ]

\* x and y are one object but for excluded fields: the sources env entries
\* reference, the status, the metadata.
OnlyExcludedDiffers(x, y) ==
    LET erased(s) ==
            [ s EXCEPT !.template.containers =
                [ i \in DOMAIN @ |->
                    [ @[i] EXCEPT !.env = [j \in DOMAIN @ |-> Literal(@[j])] ] ] ]
    IN  /\ x.kind = y.kind
        /\ IF x.kind = "Deployment" THEN erased(x.spec) = erased(y.spec)
           ELSE x.spec = y.spec

\* C21 as stated: objects that differ in an included field have different
\* hashes, objects that differ in excluded fields only have one hash.
C21_SensitivityAndExclusion ==
    ret # << >> =>
        /\ IncludedOf(arg[1], FALSE) # IncludedOf(arg[2], FALSE) => ret[1] # ret[2]
        /\ OnlyExcludedDiffers(arg[1], arg[2]) => ret[1] = ret[2]

\* C21 amended: objects whose included fields differ by more than white
\* space around a label, annotation or selector value have different
\* hashes; objects that differ in excluded fields only have one hash.
C21_SensitivityUpToTrim ==
    ret # << >> =>
        /\ IncludedOf(arg[1], TRUE) # IncludedOf(arg[2], TRUE) => ret[1] # ret[2]
        /\ OnlyExcludedDiffers(arg[1], arg[2]) => ret[1] = ret[2]

\* Two Services that differ in a node port and in their metadata have been
\* hashed.
C21_Witness ==
    /\ ret # << >>
    /\ arg[1].kind = "Service"
    /\ arg[1].annotations # arg[2].annotations
    /\ \E i \in DOMAIN arg[1].spec.ports :
          arg[2].spec = [arg[1].spec EXCEPT !.ports[i].nodePort = 30080]
    /\ arg[1].spec # arg[2].spec
    /\ ret[1] # ret[2]

(***************************************************************************)
(* C22  Indirect environment entries are dropped: two Deployments that     *)
(* are equal once every env entry with a valueFrom is left out (so they    *)
(* differ at most in such entries: one added, one removed, another source  *)
(* referenced) have the same hash.                                         *)
(***************************************************************************)
WithoutRefs(s) ==
    [ s EXCEPT !.template.containers =
        [ i \in DOMAIN @ |->
            [ @[i] EXCEPT !.env = SelectSeq(@, LAMBDA e : e.valueFrom = << >>) ] ] ]

C22_IndirectEnvDropped ==
    ( /\ ret # << >>
      /\ arg[1].kind = "Deployment"
      /\ WithoutRefs(arg[1].spec) = WithoutRefs(arg[2].spec) )
    => ret[1] = ret[2]

(***************************************************************************)
(* C23  Map canonicalisation: every string map of a fingerprint            *)
(* (pod-template labels and annotations, service selector) has the keys    *)
(* of the map it was made from, each with the value of that map less its   *)
(* leading and trailing white space; and two objects one of which has a    *)
(* key the other lacks, be its value empty, have different hashes.         *)
(***************************************************************************)
\* The string maps of an object's spec and those of its fingerprint, by name.
SpecMaps(x) ==
    IF x.kind = "Deployment"
    THEN [ labels |-> x.spec.template.labels,
           annotations |-> x.spec.template.annotations ]
    ELSE [ selector |-> x.spec.selector ]

FingerprintMaps(x) ==
    IF x.kind = "Deployment"
    THEN [ labels |-> DeploymentFingerprint(x).template.labels,
           annotations |-> DeploymentFingerprint(x).template.annotations ]
    ELSE [ selector |-> ServiceFingerprint(x).selector ]

C23_MapCanonicalisation ==
    ret # << >> =>
        /\ \A n \in DOMAIN arg : \A f \in DOMAIN SpecMaps(arg[n]) :
              LET in  == SpecMaps(arg[n])[f]
                  out == FingerprintMaps(arg[n])[f]
              IN  /\ DOMAIN out = DOMAIN in
                  /\ \A k \in DOMAIN in : out[k] = Stripped(in[k])
        /\ (\E f \in DOMAIN SpecMaps(arg[1]) :
               DOMAIN SpecMaps(arg[1])[f] # DOMAIN SpecMaps(arg[2])[f])
           => ret[1] # ret[2]

\* Hashed: a Deployment with a label whose value is blank, and the same
\* Deployment without that label.
C23_Witness ==
    /\ ret # << >>
    /\ arg[1].kind = "Deployment"
    /\ "tier" \in DOMAIN arg[1].spec.template.labels
    /\ arg[1].spec.template.labels["tier"] = <<" ">>
    /\ FingerprintMaps(arg[1]).labels["tier"] = << >>
    /\ arg[2].spec = [arg[1].spec EXCEPT !.template.labels = ("app" :> @["app"])]
    /\ ret[1] # ret[2]

(***************************************************************************)
(* C24  Absent is not zero: the document hashed for a Deployment has a     *)
(* "replicas" member exactly when replicas is set, be it to 0; and two     *)
(* Deployments that are equal but for replicas (or strategy.rollingUpdate) *)
(* being unset in one and set in the other, be it to the zero value, have  *)
(* different hashes.                                                       *)
(***************************************************************************)
\* The member names of a JSON object.
Members(doc) == {doc[2][i][1] : i \in DOMAIN doc[2]}

C24_AbsentIsNotZero ==
    ret # << >> /\ arg[1].kind = "Deployment" =>
        /\ \A n \in DOMAIN arg :
              LET doc == DeploymentFingerprintJSON(DeploymentFingerprint(arg[n]))
              IN  /\ "replicas" \in Members(doc) <=> arg[n].spec.replicas # << >>
                  /\ arg[n].spec.replicas = <<0>> =>
                        \E i \in DOMAIN doc[2] : doc[2][i] = <<"replicas", 0>>
        /\ ( /\ arg[1].spec.replicas = << >>
             /\ arg[2].spec.replicas # << >>
             /\ arg[2].spec = [arg[1].spec EXCEPT !.replicas = arg[2].spec.replicas] )
           => ret[1] # ret[2]
        /\ ( /\ arg[1].spec.strategy.rollingUpdate = << >>
             /\ arg[2].spec.strategy.rollingUpdate # << >>
             /\ arg[2].spec = [arg[1].spec EXCEPT !.strategy.rollingUpdate =
                                                   arg[2].spec.strategy.rollingUpdate] )
           => ret[1] # ret[2]

\* Hashed: a Deployment with replicas unset and the same with replicas = 0.
C24_Witness ==
    /\ ret # << >>
    /\ arg[1].kind = "Deployment"
    /\ arg[1].spec.replicas = << >>
    /\ arg[2].spec = [arg[1].spec EXCEPT !.replicas = <<0>>]
    /\ ret[1] # ret[2]

(***************************************************************************)
(* C25  Only opted-in resources trigger reconciliation: when the watch     *)
(* delivers a change of a resource that carries no enabled=true label,     *)
(* neither before nor after the change, the resource is not queued for     *)
(* Reconcile.                                                              *)
(***************************************************************************)
C25_OnlyOptedInTrigger ==
    [][\A k \in Keys :
         ( /\ Len(cache[k]) = 1
           /\ Len(cache'[k]) = 1
           /\ cache'[k] # cache[k]
           /\ Label(cache[k][1]) # "true"
           /\ Label(cache'[k][1]) # "true" )
         => (k \in queue' => k \in queue)]_vars

(***************************************************************************)
(* C26  No self-induced drift: two objects with one spec have one hash,    *)
(* whatever their metadata labels and annotations (the keys the            *)
(* reconcilers write among them) and their status.                         *)
(***************************************************************************)
C26_HashOfSpecOnly ==
    (ret # << >> /\ arg[1].spec = arg[2].spec) => ret[1] = ret[2]

\* Hashed: a Deployment before any reconciliation and the same Deployment
\* carrying the opt-in label and all the annotations of a drifted verdict.
C26_Witness ==
    /\ ret # << >>
    /\ arg[1].kind = "Deployment"
    /\ arg[1].spec = arg[2].spec
    /\ arg[1].annotations = EmptyMap
    /\ arg[1].status # arg[2].status
    /\ {AnnLiveHash, AnnDrifted, AnnLastCheckedAt, AnnDriftedAt}
         \subseteq DOMAIN arg[2].annotations
    /\ ret[1] = ret[2]

(***************************************************************************)
(* C27  Stale-read behaviour of drifted-at: a drifted invocation stages    *)
(* drifted-at, as the current time, exactly when the snapshot it fetched   *)
(* has no drifted-at, whatever the store holds; and a successful patch     *)
(* that carries drifted-at leaves the store with the staged value,         *)
(* whatever drifted-at the store held.                                     *)
(***************************************************************************)
C27_DriftedAtFromSnapshot ==
    [][\A k \in Keys :
         /\ ( /\ Fetched(k)
              /\ AnnDrifted \in DOMAIN kv'[k]
              /\ kv'[k][AnnDrifted] = "true" )
            => /\ AnnDriftedAt \in DOMAIN kv'[k]
                  <=> Ann(cache[k][1], AnnDriftedAt) = ""
               /\ AnnDriftedAt \in DOMAIN kv'[k]
                  => kv'[k][AnnDriftedAt] = RFC3339(clock)
         /\ ( /\ PatchStep(k)
              /\ ops'[k][Len(ops'[k])] = "Patch:ok"
              /\ AnnDriftedAt \in DOMAIN kv[k] )
            => Ann(store'[k][1], AnnDriftedAt) = kv[k][AnnDriftedAt]
      ]_vars

\* A patch made from a snapshot older than the previous patch has replaced
\* the first-detection time: the store holds the later time, the cache
\* still the earlier one.
C27_Witness ==
    \E k \in Keys :
        /\ hist[k] = "raced"
        /\ Len(store[k]) = 1
        /\ Len(cache[k]) = 1
        /\ Ann(cache[k][1], AnnDriftedAt) = RFC3339(0)
        /\ Ann(store[k][1], AnnDriftedAt) = RFC3339(1)
        /\ Ann(store[k][1], AnnDrifted) = "true"

(***************************************************************************)
(* C28  Notification precedes the write: a drifted invocation has emitted  *)
(* its warning when it comes to r.Patch and has made no patch call by      *)
(* then; the patch, succeed or fail, leaves the recorder as it is; and a   *)
(* failed patch puts the key back on the queue, so that the invocation     *)
(* that retries emits its warning like any drifted invocation.             *)
(***************************************************************************)
C28_EventBeforePatch ==
    [][\A k \in Keys :
         /\ ( /\ Fetched(k)
              /\ AnnDrifted \in DOMAIN kv'[k]
              /\ kv'[k][AnnDrifted] = "true" )
            => /\ Len(recorder') = Len(recorder) + 1
               /\ recorder'[Len(recorder')].object = k
               /\ recorder'[Len(recorder')].type = "Warning"
               /\ pc'[k] = "patch"
               /\ ops'[k][Len(ops'[k])] = "Eventf"
               /\ Range(ops'[k]) \cap PatchOps = {}
         /\ PatchStep(k)
            => /\ recorder' = recorder
               /\ \A i, j \in DOMAIN ops'[k] :
                     (ops'[k][i] = "Eventf" /\ ops'[k][j] \in PatchOps) => i < j
               /\ result'[k] = "err" => k \in queue'
      ]_vars

\* The patch of a drifted invocation failed, the invocation was retried and
\* the retry's patch failed too: two warnings for the one drift, nothing
\* written.
C28_Witness ==
    \E k \in Keys :
        /\ Len(recorder) = 2
        /\ recorder[1] = recorder[2]
        /\ recorder[1].object = k
        /\ ops[k] = <<"Get:ok", "Hash", "Eventf", "Patch:error">>
        /\ result[k] = "err"
        /\ Len(store[k]) = 1
        /\ ~HasAnn(store[k][1], AnnLiveHash)
        /\ ext = 0
        /\ clock = 0

(***************************************************************************)
(* C29  Quiescence: left to itself (no other writer, the watch queueing    *)
(* the resource on every change, the reconciler's own included), an        *)
(* opted-in resource comes to a point from which on no step changes the    *)
(* store or gives the recorder an event.                                   *)
(***************************************************************************)
C29_Quiescence == <>[][store' = store /\ recorder' = recorder]_vars

(***************************************************************************)
(* C30  Verdict consistency: when an invocation that observed a baseline   *)
(* has patched successfully the very object it fetched, the stored drifted *)
(* is "true" or "false", and "true" exactly when the stored live-hash and  *)
(* the stored expected-hash differ; a successful patch of an invocation    *)
(* that observed no baseline leaves drifted and live-hash as they were.    *)
(***************************************************************************)
Consistent(o) ==
    /\ Ann(o, AnnDrifted) \in {"true", "false"}
    /\ Ann(o, AnnDrifted) = "true" <=> Ann(o, AnnLiveHash) # Ann(o, AnnExpectedHash)

C30_VerdictConsistent ==
    [][\A k \in Keys :
         (PatchStep(k) /\ ops'[k][Len(ops'[k])] = "Patch:ok") =>
            /\ (AnnDrifted \in DOMAIN kv[k] /\ obj[k] = store[k])
               => Consistent(store'[k][1])
            /\ AnnDrifted \notin DOMAIN kv[k]
               => /\ SameAnn(store[k][1], store'[k][1], AnnDrifted)
                  /\ SameAnn(store[k][1], store'[k][1], AnnLiveHash)
      ]_vars

\* An invocation has recorded a drifted verdict on the object it fetched.
C30_Witness ==
    \E k \in Keys :
        /\ hist[k] = "settled"
        /\ ops[k][Len(ops[k])] = "Patch:ok"
        /\ "Hash" \in Range(ops[k])
        /\ Ann(store[k][1], AnnDrifted) = "true"
        /\ Ann(store[k][1], AnnLiveHash) # Ann(store[k][1], AnnExpectedHash)
        /\ Consistent(store[k][1])

(***************************************************************************)
(* C31  Timestamp ordering: the clock never goes back, a resource has one  *)
(* invocation at a time and no other writer sets the reconcilers' keys;    *)
(* then wherever the store holds both, drifted-at is not later than        *)
(* last-checked-at, and after a successful patch that carried drifted-at   *)
(* the two are equal.                                                      *)
(***************************************************************************)
\* The second a formatted time stands for.
SecondOf(text) == CHOOSE t \in 0..MaxClock : RFC3339(t) = text

Ordered(o) ==
    (HasAnn(o, AnnDriftedAt) /\ HasAnn(o, AnnLastCheckedAt)) =>
        SecondOf(Ann(o, AnnDriftedAt)) <= SecondOf(Ann(o, AnnLastCheckedAt))

C31_TimestampOrder ==
    [][\A k \in Keys :
         /\ Len(store'[k]) = 1 => Ordered(store'[k][1])
         /\ ( /\ PatchStep(k)
              /\ ops'[k][Len(ops'[k])] = "Patch:ok"
              /\ AnnDriftedAt \in DOMAIN kv[k] )
            => /\ HasAnn(store'[k][1], AnnLastCheckedAt)
               /\ Ann(store'[k][1], AnnDriftedAt) = Ann(store'[k][1], AnnLastCheckedAt)
      ]_vars

\* A resource found drifted in second 0 has been checked again in second 1.
C31_Witness ==
    \E k \in Keys :
        /\ Len(store[k]) = 1
        /\ Ann(store[k][1], AnnDrifted) = "true"
        /\ Ann(store[k][1], AnnDriftedAt) = RFC3339(0)
        /\ Ann(store[k][1], AnnLastCheckedAt) = RFC3339(1)
        /\ ops[k][Len(ops[k])] = "Patch:ok"

(***************************************************************************)
(* C32  Empty baseline equals no baseline: for a fetched, opted-in         *)
(* resource whose expected-hash annotation is present with the empty value *)
(* the invocation computes no hash, emits nothing and stages               *)
(* last-checked-at alone, as it does when the annotation is absent; its    *)
(* patch leaves drifted, live-hash and drifted-at as they were and the     *)
(* empty expected-hash in place.  No live hash is the empty string.        *)
(***************************************************************************)
EmptyBaseline(o) ==
    HasAnn(o, AnnExpectedHash) /\ o.annotations[AnnExpectedHash] = ""

C32_EmptyBaseline ==
    [][\A k \in Keys :
         /\ \A n \in SpecsOf(k) : HashOfSpec(KindOf(k), n) # ""
         /\ ( /\ Fetched(k)
              /\ Label(cache[k][1]) = "true"
              /\ EmptyBaseline(cache[k][1]) )
            => /\ kv'[k] = (AnnLastCheckedAt :> RFC3339(clock))
               /\ ops'[k] = <<"Get:ok">>
               /\ recorder' = recorder
               /\ pc'[k] = "patch"
         /\ ( /\ PatchStep(k)
              /\ EmptyBaseline(obj[k][1])
              /\ Len(store[k]) = 1 )
            => /\ \A a \in {AnnDrifted, AnnLiveHash, AnnDriftedAt, AnnExpectedHash} :
                     SameAnn(store[k][1], store'[k][1], a)
               /\ result'[k] = "ok"
                  => Ann(store'[k][1], AnnLastCheckedAt) = kv[k][AnnLastCheckedAt]
      ]_vars

\* An invocation on a resource with an empty expected-hash has patched:
\* last-checked-at is written, the empty annotation is still there, and no
\* verdict and no event has been produced.
C32_Witness ==
    \E k \in Keys :
        /\ ops[k] = <<"Get:ok", "Patch:ok">>
        /\ hist[k] = "settled"
        /\ EmptyBaseline(store[k][1])
        /\ HasAnn(store[k][1], AnnLastCheckedAt)
        /\ ~HasAnn(store[k][1], AnnDrifted)
        /\ ~HasAnn(store[k][1], AnnLiveHash)
        /\ recorder = << >>

(***************************************************************************)
(* C33  One decision procedure: invoked on the same fetch outcome, labels, *)
(* annotations, live hash, time and patch outcome, the Deployment          *)
(* reconciler and the Service reconciler stage the same map, hand r.Patch  *)
(* the same object (or both make no patch), return the same result and     *)
(* emit the same events but for the kind named at the head of the message. *)
(***************************************************************************)
\* An event without the part of its message that names the kind.
KindFree(e) == [e EXCEPT !.message = Tail(@)]

C33_SameProcedure ==
    ret # << >> =>
        /\ ret[1].staged = ret[2].staged
        /\ ret[1].patched = ret[2].patched
        /\ ret[1].returned = ret[2].returned
        /\ Len(ret[1].events) = Len(ret[2].events)
        /\ \A i \in DOMAIN ret[1].events :
              /\ KindFree(ret[1].events[i]) = KindFree(ret[2].events[i])
              /\ ret[1].events[i].message[1] = "Deployment drift detected: expectedHash="
              /\ ret[2].events[i].message[1] = "Service drift detected: expectedHash="

\* Both reconcilers have met a drifted resource that already carries a
\* drifted-at, and a patch that failed.
C33_Witness ==
    /\ ret # << >>
    /\ arg[1].get = "ok"
    /\ arg[1].patch = "error"
    /\ Ann(arg[1].o, AnnDriftedAt) = RFC3339(0)
    /\ arg[1].clock = 1
    /\ Len(ret[2].events) = 1
    /\ ret[2].returned = "err"
    /\ ret[2].staged = (AnnLiveHash :> "sha256:c71e") @@ (AnnLastCheckedAt :> RFC3339(1))
                       @@ (AnnDrifted :> "true")

====
